---- MODULE Spec2Model ----
(***************************************************************************)
(* A model of the quadtree tile engine of quadtree.py: the constructor's   *)
(* depth computation, the path-to-window mapping, the leaf and inner tile  *)
(* renderers with their mtime-driven rebuild decisions, and the pipeline   *)
(* go() with its batches, its worker pool and its bounded FIFO of results. *)
(***************************************************************************)
EXTENDS Integers, Sequences, FiniteSets, TLC

\* ------------------------------------------------------------------ bounds

\* Largest exponent e of the world-bound magnitudes 2^e tried by SpecDepth.
MaxMagExp == 16
\* Deepest tree whose leaf windows SpecRange enumerates.
MaxRangeDepth == 4
\* Deepest tree SpecSched runs on the inline pool (procs = 1).
MaxDepth == 7
\* Deepest tree SpecSched runs on a pool of worker processes.
MaxPoolDepth == 3
\* Largest number of worker processes.
MaxProcs == 2
\* Deepest tree of Spec, the pipeline over a changing world.
MaxTileDepth == 2
\* Deepest tree whose leaves' chunk lists SpecList computes.
MaxListDepth == 2
\* Deepest tree of SpecPool, the pipeline whose jobs may raise.
MaxFailDepth == 3
\* Deepest tree SpecShrink finds in the destination.
MaxCurDepth == 3
MaxStatDepth == 2
MaxDenied == 1
MaxLeafDepth == 1
MaxMkdirDepth == 3
MaxReconDepth == 3
\* Calls of the rebalancing methods per behaviour of SpecTopo.
MaxOps == 2
\* Last value of the clock (seconds).
MaxTime == 2
\* Pipeline runs per behaviour of Spec.
MaxRuns == 2
\* World changes between two pipeline runs.
MaxChanges == 1

\* ------------------------------------------------------- program constants

\* Python's None (an absent depth override, an absent file's mtime).  Python 2
\* orders None below every number, as -1 is below every mtime and depth here.
None == -1

\* The name "base" of the root tile, which render_innertile tells from the
\* digits 0..3 that name every other tile.
BaseName == 4

\* batch_size of go().
batch_size == 50

\* The two numbers go() divides by batch_size: the FIFO length above which it
\* drains, and the length it drains to.
DrainAbove == 10000
DrainTo == 500

\* The rows above a leaf window whose chunks are still drawn into it.
RowsAbove == 16

\* A region file groups 32 x 32 chunks.
RegionSize == 32

\* What _get_cur_depth returns when config.js tells no depth.
Undetected == -1

\* The depth search running one iteration further.
DepthIterationsWide == 15 + 1

\* xrange(15) of the constructor's depth search.
DepthIterations == 15

\* --------------------------------------------------------------- variables

VARIABLES
    world,      \* the world object's bounds: [mincol, maxcol, minrow, maxrow]
    depth,      \* the constructor's depth argument (None: compute it)
    qt,         \* the QuadtreeGen object: [st, p, mincol, maxcol, minrow, maxrow]
    rangeIdx,   \* SpecRange: index of the next leaf path in base-4 order
    windows,    \* SpecRange: the (colstart, rowstart) returned so far
    listed,     \* SpecList: the list _get_chunks_in_range returned last
    \* the world collaborator
    chunks,     \* chunk (chunkx, chunky) -> [exists, ts]
    regionfiles,\* region (rx, ry) -> mtime of its file, for the regions there are
    denied,     \* [tiles, regions]: the files whose stat fails, not with ENOENT
    now,        \* the clock, in seconds
    \* the tile directory
    tiles,      \* tile path -> mtime of its file, for the files there are
    dirs,       \* the directories there are under the tile directory
    image,      \* tile path -> what its file holds: [p, at, whole]
    curdepth,   \* maxZoom of the destination's config.js (Undetected: none)
    topo,       \* [orig, ops]: the tree before, and the rebalancing steps done
    \* go()
    procs,      \* go's argument
    pc,         \* where go() is
    zoom,       \* the level being rendered (p: the leaves)
    idx,        \* the generator's position in iterate_base4(zoom)
    results,    \* the deque of outstanding results (batch ids)
    complete,   \* tiles counted complete on this level
    total,      \* 4^zoom
    \* the pool
    batches,    \* batch id -> [kind, zoom, first, n, st, res]
    taskq,      \* the pool's queue of batches no worker has taken
    exec,       \* executor -> [batch, count]: the batch it runs, jobs done
    mk,         \* executor -> [st, lvl, err]: where its job is in making dirdest
    \* history
    nsub,       \* batches submitted in this run
    submitted,  \* level -> batches submitted in this run
    finished,   \* level -> batches whose function has returned in this run
    written,    \* tile files saved in this run
    deleted,    \* tile files unlinked in this run
    targeted,   \* the render jobs started in this run: [runs, twice, base]
    runs,       \* pipeline runs completed
    pending,    \* world changes since the last run started
    applied     \* world changes between the run before and this run

ctorVars == <<world, depth, qt>>
rangeVars == <<rangeIdx, windows, listed>>
worldVars == <<chunks, regionfiles, denied>>
fsVars == <<tiles, dirs, image, curdepth, topo>>
goVars == <<pc, zoom, idx, results, complete, total>>
poolVars == <<batches, taskq, exec>>
histVars == <<nsub, submitted, finished, written, deleted, targeted, runs, pending,
              applied>>

vars == <<ctorVars, rangeVars, worldVars, now, fsVars, procs, goVars, poolVars, mk,
          histVars>>

\* ------------------------------------------------------------- arithmetic

RECURSIVE Pow(_, _)
Pow(b, e) == IF e = 0 THEN 1 ELSE b * Pow(b, e - 1)

Abs(x) == IF x < 0 THEN -x ELSE x

Max(a, b) == IF a >= b THEN a ELSE b

Min(a, b) == IF a <= b THEN a ELSE b

\* f with key k set to v, and f without key k.
Put(f, k, v) == [x \in DOMAIN f \cup {k} |-> IF x = k THEN v ELSE f[x]]

Remove(f, k) == [x \in DOMAIN f \ {k} |-> f[x]]

Front(s) == SubSeq(s, 1, Len(s) - 1)

Last(s) == s[Len(s)]

\* The directories makedirs(d) leaves: d and every directory above it, up
\* to the tile directory <<>>.
Prefixes(d) == {SubSeq(d, 1, n) : n \in 0..Len(d)}

\* ------------------------------------------------- QuadtreeGen.__init__

\* DepthFits with the row radius not doubled.
DepthFitsSquare(p, w) ==
    LET xradius == Pow(2, p)
        yradius == Pow(2, p)
    IN  /\ xradius >= w.maxcol
        /\ -xradius <= w.mincol
        /\ yradius >= w.maxrow
        /\ -yradius <= w.minrow

\* The test of one iteration of the depth search: do 2^p columns and 2*2^p
\* rows to either side of the origin hold the world?
DepthFits(p, w) ==
    LET xradius == Pow(2, p)
        yradius == 2 * Pow(2, p)
    IN  /\ xradius >= w.maxcol
        /\ -xradius <= w.mincol
        /\ yradius >= w.maxrow
        /\ -yradius <= w.minrow

\* for p in xrange(15): ... break / else: raise ValueError.  None stands for
\* the raise.
RECURSIVE DepthLoop(_, _)
DepthLoop(p, w) ==
    IF p >= DepthIterations THEN None
    ELSE IF DepthFits(p, w) THEN p
    ELSE DepthLoop(p + 1, w)

\* The object the constructor leaves: the depth and the effective window,
\* symmetric about the origin.
QuadtreeOfDepth(p) ==
    [st |-> "ok", p |-> p,
     mincol |-> -Pow(2, p), maxcol |-> Pow(2, p),
     minrow |-> -(2 * Pow(2, p)), maxrow |-> 2 * Pow(2, p)]

NoQuadtree(st) ==
    [st |-> st, p |-> None, mincol |-> 0, maxcol |-> 0, minrow |-> 0, maxrow |-> 0]

QuadtreeGenInit(w, d) ==
    IF d = None
    THEN LET p == DepthLoop(0, w)
         IN  IF p = None THEN NoQuadtree("error") ELSE QuadtreeOfDepth(p)
    ELSE QuadtreeOfDepth(d)

\* ------------------------------------------------------ coordinate model

\* The enumeration yielding every other path twice.
PathOfIndexCoarse(k, d) == [i \in 1..d |-> ((k - (k % 2)) \div Pow(4, d - i)) % 4]

\* The k-th element of itertools.product(xrange(4), repeat=d): the d base-4
\* digits of k, most significant first.
PathOfIndex(k, d) == [i \in 1..d |-> (k \div Pow(4, d - i)) % 4]

\* The loop of _get_range_by_path from digit i on.
RECURSIVE RangeLoop(_, _, _, _, _, _)
RangeLoop(x, y, xsize, ysize, path, i) ==
    IF i > Len(path) THEN <<x, y>>
    ELSE RangeLoop(IF path[i] \in {1, 3} THEN x + xsize ELSE x,
                   IF path[i] \in {2, 3} THEN y + ysize ELSE y,
                   xsize \div 2, ysize \div 2, path, i + 1)

\* _get_range_by_path starting from the full width and height instead of the
\* radii.
GetRangeByPathWide(q, path) ==
    RangeLoop(q.mincol, q.minrow, 2 * q.maxcol, 2 * q.maxrow, path, 1)

\* The walk started at the origin instead of the window's corner.
GetRangeByPathFromOrigin(q, path) ==
    RangeLoop(0, 0, q.maxcol, q.maxrow, path, 1)

GetRangeByPath(q, path) ==
    RangeLoop(q.mincol, q.minrow, q.maxcol, q.maxrow, path, 1)

\* --------------------------------------------------- the world collaborator

\* world.unconvert_coords: the chunk at grid cell (col, row).
UnconvertCoords(col, row) == <<(col - row) \div 2, (col + row) \div 2>>

\* region.chunkExists(chunkx, chunky)
ChunkExists(chunkx, chunky) ==
    /\ <<chunkx, chunky>> \in DOMAIN chunks
    /\ chunks[<<chunkx, chunky>>].exists

\* region.get_chunk_timestamp(chunkx, chunky)
GetChunkTimestamp(chunkx, chunky) == chunks[<<chunkx, chunky>>].ts

\* ------------------------------------------------- _get_chunks_in_range

\* The list without the parity test.
GetChunksInRangeAnyParity(colstart, colend, rowstart, rowend) ==
    LET ncols == colend + 1 - colstart
        nrows == rowend + 1 - (rowstart - RowsAbove)
        Cell(k) ==
            LET row == (rowstart - RowsAbove) + ((k - 1) \div ncols)
                col == colstart + ((k - 1) % ncols)
                c == UnconvertCoords(col, row)
            IN  [col |-> col, row |-> row, chunkx |-> c[1], chunky |-> c[2],
                 region |-> <<c[1] \div RegionSize, c[2] \div RegionSize>>]
        Kept(t) == t.region \in DOMAIN regionfiles
    IN  SelectSeq([k \in 1..(nrows * ncols) |-> Cell(k)], Kept)

\* The list without the rows above the window.
GetChunksInRangeNoRowsAbove(colstart, colend, rowstart, rowend) ==
    LET ncols == colend + 1 - colstart
        nrows == rowend + 1 - rowstart
        Cell(k) ==
            LET row == rowstart + ((k - 1) \div ncols)
                col == colstart + ((k - 1) % ncols)
                c == UnconvertCoords(col, row)
            IN  [col |-> col, row |-> row, chunkx |-> c[1], chunky |-> c[2],
                 region |-> <<c[1] \div RegionSize, c[2] \div RegionSize>>]
        Kept(t) == t.row % 2 = t.col % 2 /\ t.region \in DOMAIN regionfiles
    IN  SelectSeq([k \in 1..(nrows * ncols) |-> Cell(k)], Kept)

\* The list the two nested loops build: rows from rowstart-16 to rowend,
\* columns from colstart to colend, cells of equal parity whose region the
\* world's region map holds.
GetChunksInRange(colstart, colend, rowstart, rowend) ==
    LET ncols == colend + 1 - colstart
        nrows == rowend + 1 - (rowstart - RowsAbove)
        Cell(k) ==
            LET row == (rowstart - RowsAbove) + ((k - 1) \div ncols)
                col == colstart + ((k - 1) % ncols)
                c == UnconvertCoords(col, row)
            IN  [col |-> col, row |-> row, chunkx |-> c[1], chunky |-> c[2],
                 region |-> <<c[1] \div RegionSize, c[2] \div RegionSize>>]
        Kept(t) == t.row % 2 = t.col % 2 /\ t.region \in DOMAIN regionfiles
    IN  SelectSeq([k \in 1..(nrows * ncols) |-> Cell(k)], Kept)

\* The job of a leaf path as _apply_render_worldtiles batches it.
WorldTileJob(path) ==
    LET r == GetRangeByPath(qt, path)
        colstart == r[1]
        colend == r[1] + 2
        rowstart == r[2]
        rowend == r[2] + 4
    IN  [chunks |-> GetChunksInRange(colstart, colend, rowstart, rowend),
         colstart |-> colstart, colend |-> colend,
         rowstart |-> rowstart, rowend |-> rowend, path |-> path]

\* ----------------------------------------------------- render_worldtile

\* os.stat(imgpath)[ST_MTIME], None when the file is not there.
TileMtime(path) == IF path \in DOMAIN tiles THEN tiles[path] ELSE None

\* The chunks of a job that exist in their region files.
ExistingChunks(job) ==
    LET Exists(t) == ChunkExists(t.chunkx, t.chunky)
    IN  SelectSeq(job.chunks, Exists)

\* A freshness test that looks at the chunks' timestamps only.
LeafNeedsRerenderChunkOnly(chunklist, tile_mtime) ==
    \E i \in 1..Len(chunklist) :
        GetChunkTimestamp(chunklist[i].chunkx, chunklist[i].chunky) > tile_mtime

\* The freshness loop of render_worldtile: some chunk's region file is newer
\* than the tile and the chunk itself is newer than the tile.
LeafNeedsRerender(chunklist, tile_mtime) ==
    \E i \in 1..Len(chunklist) :
        /\ ~(regionfiles[chunklist[i].region] <= tile_mtime)
        /\ GetChunkTimestamp(chunklist[i].chunkx, chunklist[i].chunky) > tile_mtime

\* The same loop, step by step from chunk i on: a chunk whose region file is
\* not newer than the tile is passed over (continue), any other is asked
\* for its timestamp, and the first one newer than the tile ends the loop
\* (break).  queried holds the chunks asked so far.
RECURSIVE FreshnessLoop(_, _, _, _)
FreshnessLoop(chunklist, tile_mtime, i, queried) ==
    IF i > Len(chunklist)
    THEN [needs_rerender |-> FALSE, queried |-> queried]
    ELSE IF regionfiles[chunklist[i].region] <= tile_mtime
         THEN FreshnessLoop(chunklist, tile_mtime, i + 1, queried)
         ELSE IF GetChunkTimestamp(chunklist[i].chunkx, chunklist[i].chunky)
                    > tile_mtime
              THEN [needs_rerender |-> TRUE, queried |-> queried \cup {i}]
              ELSE FreshnessLoop(chunklist, tile_mtime, i + 1, queried \cup {i})

\* os.path.getmtime(regionfile) raises OSError in the freshness loop: the
\* loop comes to a chunk of a region that cannot be statted before any
\* chunk has made it break.  The except clause around the loop passes, and
\* the tile is rendered.
RegionStatFails(chunklist, tile_mtime) ==
    \E i \in 1..Len(chunklist) :
        /\ chunklist[i].region \in denied.regions
        /\ \A j \in 1..(i - 1) :
              \/ chunklist[j].region \in denied.regions
              \/ ~LeafNeedsRerender(<<chunklist[j]>>, tile_mtime)

\* What a render leaves: the files, the directories, and what it saved and
\* unlinked.
Effect(tl, ds, wr, rm) == [tiles |-> tl, dirs |-> ds, wrote |-> wr, removed |-> rm]

\* render_worldtile that leaves the file of a tile without chunks alone.
RenderWorldTileKeepEmpty(job) ==
    LET path == job.path
        chunklist == ExistingChunks(job)
        tile_mtime == TileMtime(path)
        newdirs == IF path = <<>> THEN dirs ELSE dirs \cup Prefixes(Front(path))
    IN  IF chunklist = <<>>
        THEN Effect(tiles, dirs, {}, {})
        ELSE IF \/ LeafNeedsRerender(chunklist, tile_mtime)
                \/ RegionStatFails(chunklist, tile_mtime)
             THEN Effect(Put(tiles, path, now), newdirs, {path}, {})
             ELSE Effect(tiles, newdirs, {}, {})

RenderWorldTile(job) ==
    LET path == job.path
        chunklist == ExistingChunks(job)
        tile_mtime == TileMtime(path)
        dirdest == Front(path)
        newdirs == IF path = <<>> THEN dirs ELSE dirs \cup Prefixes(dirdest)
    IN  IF chunklist = <<>>
        THEN IF tile_mtime # None
             THEN Effect(Remove(tiles, path), dirs, {}, {path})
             ELSE Effect(tiles, dirs, {}, {})
        ELSE IF \/ LeafNeedsRerender(chunklist, tile_mtime)
                \/ RegionStatFails(chunklist, tile_mtime)
             THEN Effect(Put(tiles, path, now), newdirs, {path}, {})
             ELSE Effect(tiles, newdirs, {}, {})

\* ----------------------------------------------------- render_innertile

\* The four files a tile is composed from: for "base" they lie in dest, for
\* any other tile in dest/name.
QuadPath(dest, name) ==
    IF name = BaseName
    THEN [d \in 0..3 |-> dest \o <<d>>]
    ELSE [d \in 0..3 |-> dest \o <<name, d>>]

\* os.stat of a child file returns: the file is there and stat does not
\* fail; an OSError, whichever, leaves the child out.
StatOk(path) == path \in DOMAIN tiles /\ path \notin denied.tiles

\* needs_rerender that also fires for a child as old as the tile.
InnerNeedsRerenderOrEqual(tile_mtime, quads) ==
    \/ tile_mtime = None
    \/ \E d \in 0..3 : StatOk(quads[d]) /\ tiles[quads[d]] >= tile_mtime

\* needs_rerender that looks at the tile alone.
InnerNeedsRerenderIfMissing(tile_mtime, quads) == tile_mtime = None

\* needs_rerender of render_innertile: the tile is not there, or a child that
\* is there is newer than it.
InnerNeedsRerender(tile_mtime, quads) ==
    \/ tile_mtime = None
    \/ \E d \in 0..3 : StatOk(quads[d]) /\ tiles[quads[d]] > tile_mtime

RenderInnerTile(dest, name) ==
    LET imgpath == dest \o <<name>>
        quads == QuadPath(dest, name)
        tile_mtime == TileMtime(imgpath)
        quadPath_filtered == {d \in 0..3 : StatOk(quads[d])}
    IN  IF quadPath_filtered = {}
        THEN IF tile_mtime # None
             THEN Effect(Remove(tiles, imgpath), dirs, {}, {imgpath})
             ELSE Effect(tiles, dirs, {}, {})
        ELSE IF InnerNeedsRerender(tile_mtime, quads)
             THEN Effect(Put(tiles, imgpath, now), dirs, {imgpath}, {})
             ELSE Effect(tiles, dirs, {}, {})

\* --------------------------------------------- the tile tree, rebalanced

\* What an image file holds: the depth of the tree it was rendered for, the
\* path it was rendered at, and whether the save ran to its end.
Img(p, at) == [p |-> p, at |-> at, whole |-> TRUE]

\* The tile directory as the rebalancing methods see it.
Tree(tl, im, ds) == [tiles |-> tl, image |-> im, dirs |-> ds]

\* The staging directory "new" + str(dirnum).
NewDir(dirnum) == <<5 + dirnum>>

\* Is the file or directory at path q below the directory at path d?
Below(q, d) == Len(q) > Len(d) /\ SubSeq(q, 1, Len(d)) = d

\* The path q below directory src, after src is renamed to dst.
Moved(q, src, dst) == dst \o SubSeq(q, Len(src) + 1, Len(q))

\* os.mkdir(d)
Mkdir(t, d) == Tree(t.tiles, t.image, t.dirs \cup {d})

\* os.rename(src, dst) of a file: the file keeps its content and mtime.
RenameFile(t, src, dst) ==
    LET names == (DOMAIN t.tiles \ {src}) \cup {dst}
    IN  Tree([q \in names |-> IF q = dst THEN t.tiles[src] ELSE t.tiles[q]],
             [q \in names |-> IF q = dst THEN t.image[src] ELSE t.image[q]],
             t.dirs)

\* os.rename(src, dst) of a directory: everything below it moves along.
RenameDir(t, src, dst) ==
    LET New(q) == IF Below(q, src) THEN Moved(q, src, dst) ELSE q
        Old(q) == IF Below(q, dst) /\ Moved(q, dst, src) \in DOMAIN t.tiles
                  THEN Moved(q, dst, src) ELSE q
        names == {New(q) : q \in DOMAIN t.tiles}
        NewD(q) == IF q = src THEN dst
                   ELSE IF Below(q, src) THEN Moved(q, src, dst) ELSE q
    IN  Tree([q \in names |-> t.tiles[Old(q)]],
             [q \in names |-> t.image[Old(q)]],
             {NewD(q) : q \in t.dirs})

\* shutil.rmtree(d)
Rmtree(t, d) ==
    LET names == {q \in DOMAIN t.tiles : ~Below(q, d)}
    IN  Tree([q \in names |-> t.tiles[q]],
             [q \in names |-> t.image[q]],
             {q \in t.dirs : q # d /\ ~Below(q, d)})

\* One iteration of the loop of _increase_depth that leaves the content
\* of quadrant dirnum in the staging directory.
IncreaseQuadrantStaged(t, dirnum) ==
    LET newnum == 3 - dirnum
        newdir == NewDir(dirnum)
        t1 == Mkdir(t, newdir)
        t2 == IF <<dirnum>> \in DOMAIN t1.tiles
              THEN RenameFile(t1, <<dirnum>>, newdir \o <<newnum>>) ELSE t1
    IN  IF <<dirnum>> \in t2.dirs
        THEN RenameDir(t2, <<dirnum>>, newdir \o <<newnum>>) ELSE t2

\* One iteration of the loop of _increase_depth that puts the quadrant in
\* the corner of its own number instead of the opposite one.
IncreaseQuadrantSame(t, dirnum) ==
    LET newnum == dirnum
        newdir == NewDir(dirnum)
        t1 == Mkdir(t, newdir)
        t2 == IF <<dirnum>> \in DOMAIN t1.tiles
              THEN RenameFile(t1, <<dirnum>>, newdir \o <<newnum>>) ELSE t1
        t3 == IF <<dirnum>> \in t2.dirs
              THEN RenameDir(t2, <<dirnum>>, newdir \o <<newnum>>) ELSE t2
    IN  RenameDir(t3, newdir, <<dirnum>>)

\* One iteration of the loop of _increase_depth: quadrant dirnum's file and
\* directory go into a new directory, which takes the quadrant's name.
IncreaseQuadrant(t, dirnum) ==
    LET newnum == 3 - dirnum
        newdir == NewDir(dirnum)
        t1 == Mkdir(t, newdir)
        t2 == IF <<dirnum>> \in DOMAIN t1.tiles
              THEN RenameFile(t1, <<dirnum>>, newdir \o <<newnum>>) ELSE t1
        t3 == IF <<dirnum>> \in t2.dirs
              THEN RenameDir(t2, <<dirnum>>, newdir \o <<newnum>>) ELSE t2
    IN  RenameDir(t3, newdir, <<dirnum>>)

\* _increase_depth: for dirnum in range(4)
IncreaseDepth(t) ==
    IncreaseQuadrant(IncreaseQuadrant(IncreaseQuadrant(IncreaseQuadrant(t, 0), 1), 2), 3)

\* One of the four blocks of _decrease_depth.
DecreaseQuadrant(t, dirnum) ==
    LET newnum == 3 - dirnum
    IN  IF <<dirnum, newnum>> \in t.dirs
        THEN RenameDir(Rmtree(RenameDir(t, <<dirnum, newnum>>, NewDir(dirnum)),
                              <<dirnum>>),
                       NewDir(dirnum), <<dirnum>>)
        ELSE t

\* _decrease_depth
DecreaseDepth(t) ==
    DecreaseQuadrant(DecreaseQuadrant(DecreaseQuadrant(DecreaseQuadrant(t, 0), 1), 2), 3)

RECURSIVE Times(_, _, _)
\* for _ in xrange(n): step, where step grows or shrinks the tree.
Times(n, t, grow) ==
    IF n <= 0 THEN t
    ELSE Times(n - 1, IF grow THEN IncreaseDepth(t) ELSE DecreaseDepth(t), grow)

\* Reconcile that takes an undetected depth for a depth like any other.
ReconcileAlways(t, cur, p) ==
    IF p > cur THEN Times(p - cur, t, TRUE)
    ELSE IF p < cur THEN Times(cur - p, t, FALSE)
    ELSE t

\* The head of go(): the tree is grown or shrunk by as many levels as the
\* depth config.js tells differs from p.
Reconcile(t, cur, p) ==
    IF cur = Undetected THEN t
    ELSE IF p > cur THEN Times(p - cur, t, TRUE)
    ELSE IF p < cur THEN Times(cur - p, t, FALSE)
    ELSE t

\* The rebalancing steps go() takes.
ReconcileOps(cur, p) ==
    IF cur = Undetected \/ cur = p THEN <<>>
    ELSE IF p > cur THEN [i \in 1..(p - cur) |-> "inc"]
    ELSE [i \in 1..(cur - p) |-> "dec"]

\* ------------------------------------------------------------------ go()

\* The executors: the caller itself (0) for the inline FakePool of
\* procs = 1, else the worker processes 1..procs.
Executors == IF procs = 1 THEN {0} ELSE 1..procs

Idle == [batch |-> 0, count |-> 0]

\* An executor that is not between the exists-check and the end of
\* os.makedirs: no directory level at hand, no errno from mkdir.
NoMk == [st |-> "start", lvl |-> 0, err |-> "none"]

\* The drain test off by one.
MustDrainLate(n) == n > DrainAbove \div batch_size + 1

\* len(results) > 10000/batch_size, and len(results) > 500/batch_size
MustDrain(n) == n > DrainAbove \div batch_size

KeepDraining(n) == n > DrainTo \div batch_size

\* result.get() returns: the batch's function has returned.
ResultReady(id) == batches[id].st = "done"

\* After results.append(result): drain, or ask the generator for more.
AfterAppend(n) == IF MustDrain(n) THEN "drain" ELSE "gen"

\* The place of a path in the order of iterate_base4.
RECURSIVE IndexOfPath(_)
IndexOfPath(path) ==
    IF path = <<>> THEN 0 ELSE 4 * IndexOfPath(Front(path)) + Last(path)

\* No render job has been started.  The jobs started are kept as runs of
\* consecutive paths of a level, the paths started more than once, and
\* the number of renders of 'base'.
NoTargets == [runs |-> {}, twice |-> {}, base |-> 0]

\* A render job has been started on the path before.
Covered(path) ==
    IF path = <<BaseName>>
    THEN targeted.base > 0
    ELSE \E r \in targeted.runs :
            /\ r.zoom = Len(path)
            /\ r.first <= IndexOfPath(path)
            /\ IndexOfPath(path) < r.first + r.n

\* One more render job has been started on a path.
Started(path) ==
    LET k == IndexOfPath(path)
        Ends(r) == r.zoom = Len(path) /\ r.first + r.n = k
    IN  IF Covered(path)
        THEN [targeted EXCEPT !.twice = @ \cup {path}]
        ELSE IF path = <<BaseName>>
        THEN [targeted EXCEPT !.base = 1]
        ELSE IF \E r \in targeted.runs : Ends(r)
        THEN LET r == CHOOSE r \in targeted.runs : Ends(r)
             IN  [targeted EXCEPT
                     !.runs = (@ \ {r}) \cup {[r EXCEPT !.n = @ + 1]}]
        ELSE [targeted EXCEPT
                 !.runs = @ \cup {[zoom |-> Len(path), first |-> k, n |-> 1]}]

\* The paths render jobs have been started on in this run.
Targets ==
    UNION {{PathOfIndex(k, r.zoom) : k \in r.first..(r.first + r.n - 1)} :
              r \in targeted.runs}
    \cup (IF targeted.base > 0 THEN {<<BaseName>>} ELSE {})

\* The files' contents after a render: the file saved holds an image of the
\* tree of depth p.
Images(eff) ==
    [t \in DOMAIN eff.tiles |-> IF t \in eff.wrote THEN Img(qt.p, t) ELSE image[t]]

\* go() up to the first request to the generator: the tree is rebalanced,
\* the pool created, the counters set.
GoStart ==
    /\ qt.st = "ok"
    /\ pc = "idle"
    /\ LET t == Reconcile(Tree(tiles, image, dirs), curdepth, qt.p)
           ops == ReconcileOps(curdepth, qt.p)
       IN  /\ tiles' = t.tiles
           /\ image' = t.image
           /\ dirs' = t.dirs
           /\ topo' = IF ops = <<>> THEN topo
                      ELSE [orig |-> Tree(tiles, image, dirs), ops |-> ops]
    /\ pc' = "gen"
    /\ results' = <<>>
    /\ complete' = 0
    /\ total' = Pow(4, qt.p)
    /\ zoom' = qt.p
    /\ idx' = 0
    /\ batches' = <<>>
    /\ taskq' = <<>>
    /\ exec' = [e \in Executors |-> Idle]
    /\ nsub' = 0
    /\ submitted' = [k \in 0..qt.p |-> 0]
    /\ finished' = [k \in 0..qt.p |-> 0]
    /\ written' = {}
    /\ deleted' = {}
    /\ targeted' = NoTargets
    /\ applied' = pending
    /\ pending' = <<>>
    /\ UNCHANGED <<ctorVars, mk, rangeVars, worldVars, now, curdepth, procs, runs>>

\* One request to the generator that yields: the next batch_size paths (or
\* the rest) go to the pool as one task.  The inline pool runs the task
\* inside apply_async; the process pool queues it, and go() appends the
\* result handle and looks at the length of the deque.
SubmitBatch ==
    /\ pc = "gen"
    /\ idx < Pow(4, zoom)
    /\ LET n == Min(batch_size, Pow(4, zoom) - idx)
           id == nsub + 1
           b == [kind |-> IF zoom = qt.p THEN "world" ELSE "inner",
                 zoom |-> zoom, first |-> idx, n |-> n,
                 st |-> IF procs = 1 THEN "running" ELSE "queued", res |-> 0]
       IN  /\ idx' = idx + n
           /\ nsub' = id
           /\ submitted' = [submitted EXCEPT ![zoom] = @ + 1]
           /\ batches' = Put(batches, id, b)
           /\ IF procs = 1
              THEN /\ exec' = [exec EXCEPT ![0] = [batch |-> id, count |-> 0]]
                   /\ pc' = "apply"
                   /\ UNCHANGED <<taskq, results>>
              ELSE /\ taskq' = Append(taskq, id)
                   /\ results' = Append(results, id)
                   /\ pc' = AfterAppend(Len(results'))
                   /\ UNCHANGED exec
    /\ UNCHANGED <<ctorVars, mk, rangeVars, worldVars, now, fsVars, procs, zoom,
                   complete, total, finished, written, deleted, targeted, runs, pending,
                   applied>>

\* The generator is exhausted: the for loop ends.
GenExhausted ==
    /\ pc = "gen"
    /\ idx = Pow(4, zoom)
    /\ pc' = "wait"
    /\ UNCHANGED <<ctorVars, mk, rangeVars, worldVars, now, fsVars, procs, zoom, idx,
                   results, complete, total, poolVars, histVars>>

\* An idle worker process takes the oldest queued task.
WorkerTake(w) ==
    /\ procs # 1
    /\ exec[w].batch = 0
    /\ taskq # <<>>
    /\ exec' = [exec EXCEPT ![w] = [batch |-> Head(taskq), count |-> 0]]
    /\ taskq' = Tail(taskq)
    /\ batches' = [batches EXCEPT ![Head(taskq)].st = "running"]
    /\ UNCHANGED <<ctorVars, mk, rangeVars, worldVars, now, fsVars, procs, goVars, histVars>>

\* os.stat(imgpath) on the tile to render raises an OSError whose errno is
\* not ENOENT: both renderers raise it again.
TargetStatRaises(path) == path \in denied.tiles

\* One iteration of render_worldtile_batch or render_innertile_batch: the
\* next job of the batch is rendered.  After the last job the function
\* returns the count; the inline pool wraps it in a FakeResult, which go()
\* appends.
RunJobOn(e) ==
    /\ exec[e].batch # 0
    /\ LET id == exec[e].batch
           b == batches[id]
           path == PathOfIndex(b.first + exec[e].count, b.zoom)
           eff == IF b.kind = "world"
                  THEN RenderWorldTile(WorldTileJob(path))
                  ELSE RenderInnerTile(Front(path), Last(path))
           count == exec[e].count + 1
       IN  /\ ~TargetStatRaises(path)
           /\ tiles' = eff.tiles
           /\ dirs' = eff.dirs
           /\ image' = Images(eff)
           /\ written' = written \cup eff.wrote
           /\ deleted' = deleted \cup eff.removed
           /\ targeted' = Started(path)
           /\ IF count < b.n
              THEN /\ exec' = [exec EXCEPT ![e].count = count]
                   /\ UNCHANGED <<batches, finished, results, pc>>
              ELSE /\ exec' = [exec EXCEPT ![e] = Idle]
                   /\ batches' = [batches EXCEPT ![id].st = "done", ![id].res = count]
                   /\ finished' = [finished EXCEPT ![b.zoom] = @ + 1]
                   /\ IF e = 0
                      THEN /\ results' = Append(results, id)
                           /\ pc' = AfterAppend(Len(results'))
                      ELSE UNCHANGED <<results, pc>>
    /\ UNCHANGED <<ctorVars, rangeVars, worldVars, now, curdepth, topo, procs, zoom,
                   idx, complete, total, taskq, nsub, submitted, runs, pending, applied>>

\* The job taken in one step, the making of its directory included.
RunJob(e) == RunJobOn(e) /\ UNCHANGED mk

\* The job an executor is at: its batch, its path, what rendering it does.
CurrentJob(e) ==
    LET b == batches[exec[e].batch]
        path == PathOfIndex(b.first + exec[e].count, b.zoom)
    IN  [id |-> exec[e].batch, kind |-> b.kind, path |-> path,
         eff |-> IF b.kind = "world"
                 THEN RenderWorldTile(WorldTileJob(path))
                 ELSE RenderInnerTile(Front(path), Last(path))]

\* What a save that does not run to its end leaves at imgpath: a file of
\* the current time that does not hold the image.
Partial(path) == [Img(qt.p, path) EXCEPT !.whole = FALSE]

\* A job of a batch raises: a KeyboardInterrupt, which the decorator turns
\* into Exception("Exiting"), or any other exception, which it re-raises.
\* The exception may come before the job has touched a file, or while
\* save() is writing to imgpath.  A worker process hands it to the
\* result; the inline pool lets it through apply_async, the generator and
\* go().
JobFails(e) ==
    /\ exec[e].batch # 0
    /\ LET job == CurrentJob(e)
       IN  /\ \E insave \in BOOLEAN :
                 /\ insave => job.eff.wrote # {}
                 /\ tiles' = IF insave THEN Put(tiles, job.path, now) ELSE tiles
                 /\ image' = IF insave THEN Put(image, job.path, Partial(job.path))
                             ELSE image
                 /\ dirs' \in IF insave THEN {job.eff.dirs} ELSE {dirs, job.eff.dirs}
           /\ batches' = [batches EXCEPT ![job.id].st = "failed"]
           /\ targeted' = Started(job.path)
    /\ exec' = [exec EXCEPT ![e] = Idle]
    /\ pc' = IF e = 0 THEN "failed" ELSE pc
    /\ UNCHANGED <<ctorVars, mk, rangeVars, worldVars, now, curdepth, topo, procs, zoom,
                   idx, results, complete, total, taskq, nsub, submitted, finished,
                   written, deleted, runs, pending, applied>>

\* The job an executor is at stats its own tile, and the stat fails: the
\* job raises before it has made a directory or touched a file, and its
\* batch fails with it.
StatRaises(e) ==
    /\ exec[e].batch # 0
    /\ LET job == CurrentJob(e)
       IN  /\ TargetStatRaises(job.path)
           /\ batches' = [batches EXCEPT ![job.id].st = "failed"]
           /\ targeted' = Started(job.path)
    /\ exec' = [exec EXCEPT ![e] = Idle]
    /\ pc' = IF e = 0 THEN "failed" ELSE pc
    /\ UNCHANGED <<ctorVars, mk, rangeVars, worldVars, now, fsVars, procs, zoom,
                   idx, results, complete, total, taskq, nsub, submitted, finished,
                   written, deleted, runs, pending, applied>>

\* GetRaises that takes the failed batch for one that rendered nothing.
GetRaisesContinue ==
    /\ pc \in {"drain", "wait"}
    /\ results # <<>>
    /\ batches[Head(results)].st = "failed"
    /\ results' = Tail(results)
    /\ batches' = Remove(batches, Head(results))
    /\ UNCHANGED <<ctorVars, mk, rangeVars, worldVars, now, fsVars, procs, pc, zoom, idx,
                   complete, total, taskq, exec, histVars>>

\* results.popleft().get() on the result of a batch that raised: get()
\* raises the exception again, and go() ends with it.
GetRaises ==
    /\ pc \in {"drain", "wait"}
    /\ results # <<>>
    /\ batches[Head(results)].st = "failed"
    /\ results' = Tail(results)
    /\ pc' = "failed"
    /\ UNCHANGED <<ctorVars, mk, rangeVars, worldVars, now, fsVars, procs, zoom, idx,
                   complete, total, poolVars, histVars>>

\* PopResult that takes the newest result instead of the oldest.
PopResultLifo ==
    /\ pc \in {"drain", "wait"}
    /\ results # <<>>
    /\ ResultReady(Last(results))
    /\ complete' = complete + batches[Last(results)].res
    /\ results' = Front(results)
    /\ batches' = Remove(batches, Last(results))
    /\ pc' = IF pc = "wait" THEN "wait"
             ELSE IF KeepDraining(Len(results')) THEN "drain" ELSE "gen"
    /\ UNCHANGED <<ctorVars, mk, rangeVars, worldVars, now, fsVars, procs, zoom, idx,
                   total, taskq, exec, histVars>>

\* complete += results.popleft().get(), in the drain loop and in the loop that
\* waits for the rest of a level.
PopResult ==
    /\ pc \in {"drain", "wait"}
    /\ results # <<>>
    /\ ResultReady(Head(results))
    /\ complete' = complete + batches[Head(results)].res
    /\ results' = Tail(results)
    /\ batches' = Remove(batches, Head(results))
    /\ pc' = IF pc = "wait" THEN "wait"
             ELSE IF KeepDraining(Len(results')) THEN "drain" ELSE "gen"
    /\ UNCHANGED <<ctorVars, mk, rangeVars, worldVars, now, fsVars, procs, zoom, idx,
                   total, taskq, exec, histVars>>

\* LevelDone without the wait for the rest of the results: the next level
\* starts once the deque is down to the length the drain loop leaves.
LevelDoneEarly ==
    /\ pc = "wait"
    /\ ~KeepDraining(Len(results))
    /\ IF zoom > 1
       THEN /\ zoom' = zoom - 1
            /\ complete' = 0
            /\ total' = Pow(4, zoom - 1)
            /\ idx' = 0
            /\ pc' = "gen"
       ELSE /\ pc' = "close"
            /\ UNCHANGED <<zoom, complete, total, idx>>
    /\ UNCHANGED <<ctorVars, mk, rangeVars, worldVars, now, fsVars, procs, results,
                   poolVars, histVars>>

\* A level is drained: the next zoom of xrange(p-1, 0, -1) starts, or the
\* loop over the levels ends.
LevelDone ==
    /\ pc = "wait"
    /\ results = <<>>
    /\ IF zoom > 1
       THEN /\ zoom' = zoom - 1
            /\ complete' = 0
            /\ total' = Pow(4, zoom - 1)
            /\ idx' = 0
            /\ pc' = "gen"
       ELSE /\ pc' = "close"
            /\ UNCHANGED <<zoom, complete, total, idx>>
    /\ UNCHANGED <<ctorVars, mk, rangeVars, worldVars, now, fsVars, procs, results,
                   poolVars, histVars>>

\* pool.close(); pool.join(): every worker has run out of tasks.
ClosePool ==
    /\ pc = "close"
    /\ taskq = <<>>
    /\ \A e \in Executors : exec[e].batch = 0
    /\ pc' = "base"
    /\ UNCHANGED <<ctorVars, mk, rangeVars, worldVars, now, fsVars, procs, zoom, idx,
                   results, complete, total, poolVars, histVars>>

\* render_innertile(tiledir, "base", ...), in go() itself.
RenderBase ==
    /\ pc = "base"
    /\ ~TargetStatRaises(<<BaseName>>)
    /\ LET eff == RenderInnerTile(<<>>, BaseName)
       IN  /\ tiles' = eff.tiles
           /\ dirs' = eff.dirs
           /\ image' = Images(eff)
           /\ written' = written \cup eff.wrote
           /\ deleted' = deleted \cup eff.removed
    /\ targeted' = Started(<<BaseName>>)
    /\ pc' = "done"
    /\ runs' = runs + 1
    /\ UNCHANGED <<ctorVars, mk, rangeVars, worldVars, now, curdepth, topo, procs, zoom,
                   idx, results,
                   complete, total, poolVars, nsub, submitted, finished, pending, applied>>

\* The stat of base.<ext> fails in go() itself, and go() ends with the
\* error.
BaseStatRaises ==
    /\ pc = "base"
    /\ TargetStatRaises(<<BaseName>>)
    /\ targeted' = Started(<<BaseName>>)
    /\ pc' = "failed"
    /\ UNCHANGED <<ctorVars, mk, rangeVars, worldVars, now, fsVars, procs, zoom, idx,
                   results, complete, total, poolVars, nsub, submitted, finished,
                   written, deleted, runs, pending, applied>>

Go == GoStart \/ SubmitBatch \/ GenExhausted \/ PopResult \/ LevelDone
         \/ ClosePool \/ RenderBase \/ (\E e \in Executors : RunJob(e))

\* --------------------------------------------------------- the environment

\* The chunks a world of Spec may hold: two of one region that share leaf
\* tiles, one of another region.
ChunkIds == {<<0, 0>>, <<0, 1>>, <<2, -5>>}

RegionOf(c) == <<c[1] \div RegionSize, c[2] \div RegionSize>>

\* Is the change made now newer than every tile file?
Fresh == \A t \in DOMAIN tiles : tiles[t] < now

Changeable == pc \in {"idle", "done"} /\ Len(pending) < MaxChanges

\* The game saves a new chunk, saves a chunk again, or drops a chunk: the
\* region file is rewritten each time.
AddChunk(c) ==
    /\ Changeable
    /\ ~chunks[c].exists
    /\ chunks' = [chunks EXCEPT ![c] = [exists |-> TRUE, ts |-> now]]
    /\ regionfiles' = Put(regionfiles, RegionOf(c), now)
    /\ pending' = Append(pending, [kind |-> "add", chunk |-> c, fresh |-> Fresh])
    /\ UNCHANGED <<ctorVars, mk, rangeVars, now, fsVars, procs, goVars, poolVars,
                   nsub, submitted, finished, written, deleted, targeted, runs, applied,
                   denied>>

TouchChunk(c) ==
    /\ Changeable
    /\ chunks[c].exists
    /\ chunks[c].ts < now
    /\ chunks' = [chunks EXCEPT ![c].ts = now]
    /\ regionfiles' = Put(regionfiles, RegionOf(c), now)
    /\ pending' = Append(pending, [kind |-> "touch", chunk |-> c, fresh |-> Fresh])
    /\ UNCHANGED <<ctorVars, mk, rangeVars, now, fsVars, procs, goVars, poolVars,
                   nsub, submitted, finished, written, deleted, targeted, runs, applied,
                   denied>>

DeleteChunk(c) ==
    /\ Changeable
    /\ chunks[c].exists
    /\ chunks' = [chunks EXCEPT ![c].exists = FALSE]
    /\ regionfiles' = Put(regionfiles, RegionOf(c), now)
    /\ pending' = Append(pending, [kind |-> "delete", chunk |-> c, fresh |-> Fresh])
    /\ UNCHANGED <<ctorVars, mk, rangeVars, now, fsVars, procs, goVars, poolVars,
                   nsub, submitted, finished, written, deleted, targeted, runs, applied,
                   denied>>

\* The program is started again on the same destination, at the same depth.
NewRun ==
    /\ pc = "done"
    /\ runs < MaxRuns
    /\ pc' = "idle"
    /\ UNCHANGED <<ctorVars, mk, rangeVars, worldVars, now, fsVars, procs, zoom, idx,
                   results, complete, total, poolVars, histVars>>

Tick ==
    /\ now < MaxTime
    /\ now' = now + 1
    /\ UNCHANGED <<ctorVars, mk, rangeVars, worldVars, fsVars, procs, goVars, poolVars,
                   histVars>>

\* ---------------------------------------------------------- initial states

NoRange == rangeIdx = 0 /\ windows = {} /\ listed = <<>>

\* Every file can be statted.
NoDenied == denied = [tiles |-> {}, regions |-> {}]

NoWorld ==
    /\ chunks = [c \in ChunkIds |-> [exists |-> FALSE, ts |-> 0]]
    /\ regionfiles = <<>>
    /\ NoDenied

\* No rebalancing has been done.
NoTopo == topo = [orig |-> Tree(<<>>, <<>>, {}), ops |-> <<>>]

EmptyDestdir ==
    /\ tiles = <<>> /\ dirs = {} /\ image = <<>>
    /\ curdepth = Undetected
    /\ NoTopo

NotStarted ==
    /\ pc = "idle"
    /\ zoom = 0 /\ idx = 0 /\ results = <<>> /\ complete = 0 /\ total = 0
    /\ batches = <<>> /\ taskq = <<>>
    /\ exec = [e \in Executors |-> Idle]
    /\ mk = [e \in Executors |-> NoMk]
    /\ nsub = 0 /\ submitted = <<>> /\ finished = <<>>
    /\ written = {} /\ deleted = {} /\ targeted = NoTargets
    /\ runs = 0 /\ pending = <<>> /\ applied = <<>>

\* ------------------------------------------------------------- SpecDepth

WorldBounds(a, b, c, d) == [mincol |-> a, maxcol |-> b, minrow |-> c, maxrow |-> d]

Magnitudes ==
    {0, 1, 3, 5} \cup {Pow(2, e) : e \in (MaxMagExp - 2)..MaxMagExp}
                 \cup {Pow(2, e) + 1 : e \in (MaxMagExp - 2)..(MaxMagExp - 1)}

BoundValues == Magnitudes \cup {-m : m \in Magnitudes}

InitDepth ==
    /\ world \in {WorldBounds(a, b, c, d) : a \in BoundValues, b \in BoundValues,
                                            c \in BoundValues, d \in BoundValues}
    /\ world.mincol <= world.maxcol
    /\ world.minrow <= world.maxrow
    /\ depth = None
    /\ qt = NoQuadtree("new")
    /\ procs = 1
    /\ now = 1
    /\ NoRange /\ NoWorld /\ EmptyDestdir /\ NotStarted

Construct ==
    /\ qt.st = "new"
    /\ qt' = QuadtreeGenInit(world, depth)
    /\ UNCHANGED <<world, depth, mk, rangeVars, worldVars, now, fsVars, procs, goVars,
                   poolVars, histVars>>

NextDepth == Construct \/ GoStart

SpecDepth == InitDepth /\ [][NextDepth]_vars

\* ------------------------------------------------------------- SpecRange

InitRange ==
    /\ world = WorldBounds(0, 0, 0, 0)
    /\ depth \in 0..MaxRangeDepth
    /\ qt = NoQuadtree("new")
    /\ procs = 1
    /\ now = 1
    /\ NoRange /\ NoWorld /\ EmptyDestdir /\ NotStarted

\* One iteration of the enumeration of _apply_render_worldtiles: the window
\* of the next leaf path.
RangeNext ==
    /\ qt.st = "ok"
    /\ rangeIdx < Pow(4, qt.p)
    /\ windows' = windows \cup {GetRangeByPath(qt, PathOfIndex(rangeIdx, qt.p))}
    /\ rangeIdx' = rangeIdx + 1
    /\ UNCHANGED <<listed, ctorVars, mk, worldVars, now, fsVars, procs, goVars, poolVars,
                   histVars>>

NextRange == Construct \/ RangeNext

SpecRange == InitRange /\ [][NextRange]_vars

\* -------------------------------------------------------------- SpecList

\* The regions a window of a tree of depth 0..MaxListDepth can reach.
ListRegions == {<<0, 0>>, <<-1, 0>>, <<0, -1>>, <<-1, -1>>}

InitList ==
    /\ world = WorldBounds(0, 0, 0, 0)
    /\ depth \in 0..MaxListDepth
    /\ qt = NoQuadtree("new")
    /\ procs = 1
    /\ now = 1
    /\ chunks = [c \in ChunkIds |-> [exists |-> FALSE, ts |-> 0]]
    /\ \E R \in SUBSET ListRegions : regionfiles = [r \in R |-> 0]
    /\ NoDenied
    /\ NoRange /\ EmptyDestdir /\ NotStarted

\* One iteration of _apply_render_worldtiles up to tilechunks: the chunk
\* list of the next leaf path.
ListChunks ==
    /\ qt.st = "ok"
    /\ rangeIdx < Pow(4, qt.p)
    /\ listed' = WorldTileJob(PathOfIndex(rangeIdx, qt.p)).chunks
    /\ rangeIdx' = rangeIdx + 1
    /\ UNCHANGED <<windows, ctorVars, mk, worldVars, now, fsVars, procs, goVars, poolVars,
                   histVars>>

NextList == Construct \/ ListChunks

SpecList == InitList /\ [][NextList]_vars

\* -------------------------------------------------------------- SpecTopo

\* The tile files a tree of SpecTopo may hold: 'base', top-level tiles with
\* and without a directory of their name, tiles one and two levels down.
TopoFiles ==
    {<<BaseName>>, <<0>>, <<1>>, <<3>>, <<0, 3>>, <<0, 0>>, <<1, 2>>,
     <<3, 0, 2>>, <<0, 3, 1>>}

\* Any tile tree: any of the files, the directories that hold them, and
\* possibly an empty directory.
InitTopo ==
    /\ world = WorldBounds(0, 0, 0, 0)
    /\ depth = None
    /\ qt = QuadtreeOfDepth(0)
    /\ procs = 1
    /\ now = 1
    /\ \E T \in SUBSET TopoFiles, E \in SUBSET {<<2>>} :
          /\ tiles = [t \in T |-> 0]
          /\ image = [t \in T |-> Img(Len(t), t)]
          /\ dirs = {<<>>} \cup E \cup UNION {Prefixes(Front(t)) : t \in T}
    /\ curdepth = Undetected
    /\ topo = [orig |-> Tree(tiles, image, dirs), ops |-> <<>>]
    /\ NoRange /\ NoWorld /\ NotStarted

\* self._increase_depth()
CallIncreaseDepth ==
    /\ Len(topo.ops) < MaxOps
    /\ LET t == IncreaseDepth(Tree(tiles, image, dirs))
       IN  tiles' = t.tiles /\ image' = t.image /\ dirs' = t.dirs
    /\ topo' = [topo EXCEPT !.ops = Append(@, "inc")]
    /\ UNCHANGED <<ctorVars, mk, rangeVars, worldVars, now, curdepth, procs, goVars,
                   poolVars, histVars>>

\* self._decrease_depth()
CallDecreaseDepth ==
    /\ Len(topo.ops) < MaxOps
    /\ LET t == DecreaseDepth(Tree(tiles, image, dirs))
       IN  tiles' = t.tiles /\ image' = t.image /\ dirs' = t.dirs
    /\ topo' = [topo EXCEPT !.ops = Append(@, "dec")]
    /\ UNCHANGED <<ctorVars, mk, rangeVars, worldVars, now, curdepth, procs, goVars,
                   poolVars, histVars>>

NextTopo == CallIncreaseDepth \/ CallDecreaseDepth

SpecTopo == InitTopo /\ [][NextTopo]_vars

\* ------------------------------------------------------------- SpecRecon

\* The head of go() up to the first batch, for any required depth, over any
\* tile tree and any depth config.js may tell, or none.
InitRecon ==
    /\ world = WorldBounds(0, 0, 0, 0)
    /\ depth \in 0..MaxReconDepth
    /\ qt = NoQuadtree("new")
    /\ procs = 1
    /\ now = 1
    /\ \E T \in SUBSET TopoFiles, E \in SUBSET {<<2>>} :
          /\ tiles = [t \in T |-> 0]
          /\ image = [t \in T |-> Img(Len(t), t)]
          /\ dirs = {<<>>} \cup E \cup UNION {Prefixes(Front(t)) : t \in T}
    /\ curdepth \in {Undetected} \cup 0..MaxReconDepth
    /\ topo = [orig |-> Tree(tiles, image, dirs), ops |-> <<>>]
    /\ NoRange /\ NoWorld /\ NotStarted

NextRecon == Construct \/ GoStart \/ SubmitBatch

SpecRecon == InitRecon /\ [][NextRecon]_vars

\* ------------------------------------------------------------ SpecShrink

\* The leaves of a tree of depth d that a run over the world's chunks
\* renders, and the tiles above them.
LeavesOfDepth(d) ==
    {t \in {PathOfIndex(k, d) : k \in 0..(Pow(4, d) - 1)} :
        LET r == GetRangeByPath(QuadtreeOfDepth(d), t)
            job == [chunks |-> GetChunksInRange(r[1], r[1] + 2, r[2], r[2] + 4)]
        IN  ExistingChunks(job) # <<>>}

TilesOfDepth(d) ==
    LET leaves == LeavesOfDepth(d)
    IN  IF leaves = {} THEN {}
        ELSE {<<BaseName>>}
             \cup {SubSeq(t, 1, n) : t \in leaves, n \in 1..d}

\* go() at a depth below the depth of the tree in the destination: the
\* tree is the one a run at depth curdepth has left, up to date with the
\* world, and config.js tells its depth.
InitShrink ==
    /\ world = WorldBounds(0, 0, 0, 0)
    /\ procs = 1
    /\ curdepth \in 2..MaxCurDepth
    /\ depth \in 1..(curdepth - 1)
    /\ qt = NoQuadtree("new")
    /\ now = 2
    /\ \E S \in SUBSET ChunkIds :
          /\ chunks = [c \in ChunkIds |-> [exists |-> c \in S, ts |-> 0]]
          /\ regionfiles = [r \in {RegionOf(c) : c \in S} |-> 0]
    /\ NoDenied
    /\ tiles = [t \in TilesOfDepth(curdepth) |-> 1]
    /\ image = [t \in TilesOfDepth(curdepth) |-> Img(curdepth, t)]
    /\ dirs = UNION {Prefixes(Front(t)) : t \in TilesOfDepth(curdepth)}
    /\ NoTopo
    /\ NoRange /\ NotStarted

NextShrink == Construct \/ Go

SpecShrink == InitShrink /\ [][NextShrink]_vars

\* ------------------------------------------------------------- SpecSched

\* go() on a world without chunks: on the inline pool to MaxDepth, on a pool
\* of 2..MaxProcs worker processes to MaxPoolDepth.
InitSched ==
    /\ world = WorldBounds(0, 0, 0, 0)
    /\ procs \in 1..MaxProcs
    /\ depth \in 0..(IF procs = 1 THEN MaxDepth ELSE MaxPoolDepth)
    /\ qt = NoQuadtree("new")
    /\ now = 1
    /\ NoRange /\ NoWorld /\ EmptyDestdir /\ NotStarted

NextSched == Construct \/ Go \/ (\E w \in Executors : WorkerTake(w))

SpecSched == InitSched /\ [][NextSched]_vars

\* A worker process that there is takes a task.
TakeTask(w) == w \in Executors /\ WorkerTake(w)

\* The steps go() takes itself, the jobs of the inline pool apart.
Caller ==
    GoStart \/ SubmitBatch \/ GenExhausted \/ PopResult \/ LevelDone
        \/ ClosePool \/ RenderBase

\* Executor e is in a batch and its next job does not raise: the guard of
\* RunJob(e), which changes exec whenever it is taken.
JobReady(e) ==
    /\ e \in Executors
    /\ exec[e].batch # 0
    /\ ~TargetStatRaises(CurrentJob(e).path)

\* Executor e renders the next job of its batch.
JobStep(e) == e \in Executors /\ RunJob(e)

\* The same runs with the processes scheduled: the caller of the
\* constructor and of go(), go() itself, each worker process and each batch
\* function go on when they can.  The condition on the jobs is
\* WF_vars(JobStep(e)) with ENABLED written as the guard of the action.
SpecLive ==
    /\ InitSched
    /\ [][NextSched]_vars
    /\ WF_vars(Construct)
    /\ WF_vars(Caller)
    /\ \A w \in 1..MaxProcs : WF_vars(TakeTask(w))
    /\ \A e \in 0..MaxProcs : []<>(~JobReady(e)) \/ []<><<JobStep(e)>>_vars

\* ------------------------------------------------------------------ Spec

\* The tile files a destination may hold before the first run: the first
\* leaf, the inner tiles above it and 'base', of a tree of depth d.
SeedPaths(d) ==
    {<<BaseName>>} \cup {PathOfIndex(0, z) : z \in (IF d = 0 THEN 0 ELSE 1)..d}

\* Repeated runs of the pipeline, on the inline pool, at one depth, over a
\* world the game changes between the runs while the clock runs on.  The
\* destination starts with any of the seed files, each as old as the world
\* or as new as the clock.
Init ==
    /\ world = WorldBounds(0, 0, 0, 0)
    /\ procs = 1
    /\ depth \in 0..MaxTileDepth
    /\ qt = NoQuadtree("new")
    /\ now = 1
    /\ \E S \in SUBSET ChunkIds :
          /\ chunks = [c \in ChunkIds |-> [exists |-> c \in S, ts |-> 0]]
          /\ regionfiles = [r \in {RegionOf(c) : c \in S} |-> 0]
    /\ NoDenied
    /\ \E T \in SUBSET SeedPaths(depth) :
          /\ tiles \in [T -> 0..1]
          /\ image = [t \in T |-> Img(depth, t)]
          /\ dirs = UNION {Prefixes(Front(t)) : t \in T}
    /\ curdepth = Undetected
    /\ NoTopo
    /\ NoRange /\ NotStarted

Next ==
    \/ Construct
    \/ Go
    \/ NewRun
    \/ Tick
    \/ \E c \in ChunkIds : AddChunk(c) \/ TouchChunk(c) \/ DeleteChunk(c)

Spec == Init /\ [][Next]_vars

\* -------------------------------------------------------------- SpecPool

\* One run of go() in which jobs may raise: on the inline pool and on a
\* pool of worker processes, to depth MaxFailDepth, over a world of two
\* chunks and a destination that holds some of the seed files.
InitPool ==
    /\ world = WorldBounds(0, 0, 0, 0)
    /\ procs \in 1..MaxProcs
    /\ depth \in 0..MaxFailDepth
    /\ qt = NoQuadtree("new")
    /\ now = 1
    /\ chunks = [c \in ChunkIds |-> [exists |-> c[1] = 0, ts |-> 0]]
    /\ regionfiles = [r \in {<<0, 0>>} |-> 0]
    /\ NoDenied
    /\ \E T \in {{}, SeedPaths(depth)} :
          /\ tiles = [t \in T |-> 0]
          /\ image = [t \in T |-> Img(depth, t)]
          /\ dirs = UNION {Prefixes(Front(t)) : t \in T}
    /\ curdepth = Undetected
    /\ NoTopo
    /\ NoRange /\ NotStarted

NextPool ==
    \/ Construct
    \/ Go
    \/ \E w \in Executors : WorkerTake(w)
    \/ \E e \in Executors : JobFails(e)
    \/ GetRaises

SpecPool == InitPool /\ [][NextPool]_vars

\* ------------------------------------------------ files that stat fails on

\* A tile file of the destination stops answering stat: os.stat on it
\* raises an OSError other than ENOENT from now on.
TileStatBreaks(t) ==
    /\ t \in DOMAIN tiles
    /\ Cardinality(denied.tiles) + Cardinality(denied.regions) < MaxDenied
    /\ denied' = [denied EXCEPT !.tiles = @ \cup {t}]
    /\ UNCHANGED <<ctorVars, mk, rangeVars, chunks, regionfiles, now, fsVars, procs,
                   goVars, poolVars, histVars>>

\* A region file of the world stops answering stat.
RegionStatBreaks(r) ==
    /\ r \in DOMAIN regionfiles
    /\ Cardinality(denied.tiles) + Cardinality(denied.regions) < MaxDenied
    /\ denied' = [denied EXCEPT !.regions = @ \cup {r}]
    /\ UNCHANGED <<ctorVars, mk, rangeVars, chunks, regionfiles, now, fsVars, procs,
                   goVars, poolVars, histVars>>

\* One run of go() over a destination that holds the tree of an earlier
\* run, as old as the world, while a file may stop answering stat at any
\* moment.
InitStat ==
    /\ world = WorldBounds(0, 0, 0, 0)
    /\ procs \in 1..MaxProcs
    /\ depth \in 1..MaxStatDepth
    /\ qt = NoQuadtree("new")
    /\ now = 1
    /\ chunks = [c \in ChunkIds |-> [exists |-> c[1] = 0, ts |-> 0]]
    /\ regionfiles = [r \in {<<0, 0>>} |-> 0]
    /\ NoDenied
    /\ LET T == TilesOfDepth(depth)
       IN  /\ tiles = [t \in T |-> 0]
           /\ image = [t \in T |-> Img(depth, t)]
           /\ dirs = UNION {Prefixes(Front(t)) : t \in T}
    /\ curdepth = Undetected
    /\ NoTopo
    /\ NoRange /\ NotStarted

NextStat ==
    \/ Construct
    \/ Go
    \/ \E w \in Executors : WorkerTake(w)
    \/ \E e \in Executors : StatRaises(e)
    \/ BaseStatRaises
    \/ GetRaises
    \/ \E t \in DOMAIN tiles : TileStatBreaks(t)
    \/ \E r \in DOMAIN regionfiles : RegionStatBreaks(r)

SpecStat == InitStat /\ [][NextStat]_vars

\* ------------------------------------------------- leaves of any freshness

\* One run of go() on the inline pool over a world whose three chunks and two
\* region files each carry a time of their own, and a destination that is
\* empty or holds the tree of an earlier run, of the middle of the clock.
InitLeaf ==
    /\ world = WorldBounds(0, 0, 0, 0)
    /\ procs = 1
    /\ depth \in 0..MaxLeafDepth
    /\ qt = NoQuadtree("new")
    /\ now = MaxTime
    /\ \E ts \in [ChunkIds -> 0..MaxTime] :
          chunks = [c \in ChunkIds |-> [exists |-> TRUE, ts |-> ts[c]]]
    /\ regionfiles \in [{RegionOf(c) : c \in ChunkIds} -> 0..MaxTime]
    /\ NoDenied
    /\ \E T \in {{}, TilesOfDepth(depth)} :
          /\ tiles = [t \in T |-> 1]
          /\ image = [t \in T |-> Img(depth, t)]
          /\ dirs = UNION {Prefixes(Front(t)) : t \in T}
    /\ curdepth = Undetected
    /\ NoTopo
    /\ NoRange /\ NotStarted

NextLeaf == Construct \/ Go

SpecLeaf == InitLeaf /\ [][NextLeaf]_vars

\* --------------------------------------------- the making of directories

\* os.path.dirname(path) of a tile.
DirDest(path) == Front(path)

\* Does the job come to the exists-check of its directory?  A leaf job
\* with a chunk does; a leaf job without chunks has returned before it, and
\* render_innertile makes no directory.
ComesToDir(job) ==
    /\ job.kind = "world"
    /\ ExistingChunks(WorldTileJob(job.path)) # <<>>

\* The executor has a job whose directory it has not begun to look at.
AtStart(e) == exec[e].batch # 0 /\ mk[e].st \in {"start", "raised"}

\* if not os.path.exists(dirdest): the job goes on to render when the
\* directory is there, into os.makedirs(dirdest) when it is not.
CheckDir(e) ==
    /\ AtStart(e)
    /\ LET job == CurrentJob(e)
       IN  /\ ~TargetStatRaises(job.path)
           /\ ComesToDir(job)
           /\ mk' = [mk EXCEPT ![e] =
                        IF DirDest(job.path) \in dirs
                        THEN [st |-> "render", lvl |-> 0, err |-> "none"]
                        ELSE [st |-> "up", lvl |-> Len(DirDest(job.path)),
                              err |-> "none"]]
    /\ UNCHANGED <<ctorVars, rangeVars, worldVars, now, fsVars, procs, goVars,
                   poolVars, histVars>>

\* os.makedirs(name), name the first lvl parts of dirdest: when name has a
\* head that does not exist, makedirs(head) is called first; else name is
\* about to be made.  The tile directory's own head, destdir, exists.
MakedirsUp(e) ==
    /\ exec[e].batch # 0
    /\ mk[e].st = "up"
    /\ LET k == mk[e].lvl
           dirdest == DirDest(CurrentJob(e).path)
       IN  mk' = [mk EXCEPT ![e] =
                     IF k > 0 /\ SubSeq(dirdest, 1, k - 1) \notin dirs
                     THEN [@ EXCEPT !.lvl = k - 1]
                     ELSE [@ EXCEPT !.st = "down"]]
    /\ UNCHANGED <<ctorVars, rangeVars, worldVars, now, fsVars, procs, goVars,
                   poolVars, histVars>>

\* The level after the first lvl parts of dirdest are made: the next
\* os.mkdir, or the render when dirdest itself is done.
AfterMkdir(m, dirdest) ==
    IF m.lvl = Len(dirdest)
    THEN [m EXCEPT !.st = "render"]
    ELSE [m EXCEPT !.lvl = m.lvl + 1]

\* MakedirsDown that lets EEXIST fail the job.
MakedirsDownStrict(e) ==
    /\ exec[e].batch # 0
    /\ mk[e].st = "down"
    /\ LET dirdest == DirDest(CurrentJob(e).path)
           name == SubSeq(dirdest, 1, mk[e].lvl)
       IN  IF name \in dirs
           THEN /\ mk' = [mk EXCEPT ![e] = [@ EXCEPT !.st = "raised",
                                                     !.err = "EEXIST"]]
                /\ batches' = [batches EXCEPT ![exec[e].batch].st = "failed"]
                /\ exec' = [exec EXCEPT ![e] = Idle]
                /\ pc' = IF e = 0 THEN "failed" ELSE pc
                /\ UNCHANGED <<dirs, taskq, zoom, idx, results, complete, total>>
           ELSE /\ dirs' = dirs \cup {name}
                /\ mk' = [mk EXCEPT ![e] = AfterMkdir(@, dirdest)]
                /\ UNCHANGED <<poolVars, goVars>>
    /\ UNCHANGED <<ctorVars, rangeVars, worldVars, now, tiles, image, curdepth, topo,
                   procs, histVars>>

\* os.mkdir(name) inside os.makedirs.  When another process has made name
\* in the meantime, mkdir raises EEXIST: makedirs passes over it for a head,
\* render_worldtile for dirdest itself, and the job goes on.
MakedirsDown(e) ==
    /\ exec[e].batch # 0
    /\ mk[e].st = "down"
    /\ LET dirdest == DirDest(CurrentJob(e).path)
           name == SubSeq(dirdest, 1, mk[e].lvl)
       IN  IF name \in dirs
           THEN /\ mk' = [mk EXCEPT ![e] =
                             AfterMkdir([@ EXCEPT !.err = "EEXIST"], dirdest)]
                /\ UNCHANGED dirs
           ELSE /\ dirs' = dirs \cup {name}
                /\ mk' = [mk EXCEPT ![e] = AfterMkdir(@, dirdest)]
    /\ UNCHANGED <<poolVars, goVars>>
    /\ UNCHANGED <<ctorVars, rangeVars, worldVars, now, tiles, image, curdepth, topo,
                   procs, histVars>>

\* os.mkdir raises an OSError other than EEXIST (EACCES, ENOSPC, ...):
\* makedirs and render_worldtile raise it again, and the batch fails.
MakedirsRaises(e) ==
    /\ exec[e].batch # 0
    /\ mk[e].st = "down"
    /\ mk' = [mk EXCEPT ![e] = [@ EXCEPT !.st = "raised", !.err = "EACCES"]]
    /\ batches' = [batches EXCEPT ![exec[e].batch].st = "failed"]
    /\ targeted' = Started(CurrentJob(e).path)
    /\ exec' = [exec EXCEPT ![e] = Idle]
    /\ pc' = IF e = 0 THEN "failed" ELSE pc
    /\ UNCHANGED <<ctorVars, rangeVars, worldVars, now, fsVars, procs, zoom,
                   idx, results, complete, total, taskq, nsub, submitted, finished,
                   written, deleted, runs, pending, applied>>

\* The rest of the job, from the freshness loop on, once its directory is
\* there; the whole of a job that comes to no directory.
RenderTile(e) ==
    /\ \/ mk[e].st = "render"
       \/ AtStart(e) /\ ~ComesToDir(CurrentJob(e))
    /\ RunJobOn(e)
    /\ mk' = [mk EXCEPT ![e] = NoMk]

\* One run of go() into an empty destination, each leaf job taken system
\* call by system call through the making of its directory.
InitMkdir ==
    /\ world = WorldBounds(0, 0, 0, 0)
    /\ procs \in 1..MaxProcs
    /\ depth \in 2..MaxMkdirDepth
    /\ qt = NoQuadtree("new")
    /\ now = 1
    /\ chunks = [c \in ChunkIds |-> [exists |-> c[1] = 0, ts |-> 0]]
    /\ regionfiles = [r \in {<<0, 0>>} |-> 0]
    /\ NoDenied
    /\ EmptyDestdir
    /\ NoRange /\ NotStarted

NextMkdir ==
    \/ Construct
    \/ GoStart \/ SubmitBatch \/ GenExhausted \/ PopResult \/ LevelDone
    \/ ClosePool \/ RenderBase
    \/ \E w \in Executors : WorkerTake(w)
    \/ \E e \in Executors : CheckDir(e)
    \/ \E e \in Executors : MakedirsUp(e)
    \/ \E e \in Executors : MakedirsDown(e)
    \/ \E e \in Executors : MakedirsRaises(e)
    \/ \E e \in Executors : RenderTile(e)
    \/ GetRaises

SpecMkdir == InitMkdir /\ [][NextMkdir]_vars

\* ================================================================ claims

\* ---------------------------------------------------------- the pipeline

\* The paths of a level in base-4 order, the leaves, the inner tiles.
PathsOf(z) == {PathOfIndex(k, z) : k \in 0..(Pow(4, z) - 1)}

LeafPaths == PathsOf(qt.p)

InnerPaths == UNION {PathsOf(z) : z \in 1..(qt.p - 1)}

BasePath == <<BaseName>>

\* The levels go() renders through the pool: the leaves and the inner levels.
Levels == {qt.p} \cup 1..(qt.p - 1)

CeilDiv(a, b) == (a + b - 1) \div b

\* A run has just completed: the world is still as the run saw it.
RunComplete == pc = "done" /\ pending = <<>>

\* C1: phases never overlap.  A batch of a level is submitted only when
\* every batch of every deeper level has returned its result, the batches
\* outstanding all belong to the level being rendered, and 'base' is rendered
\* only when every batch of every level has returned.
PhasesNeverOverlap ==
    (qt.st = "ok" /\ pc # "idle") =>
        /\ \A k \in Levels : submitted[k] > 0 =>
              \A j \in Levels : j > k => finished[j] = CeilDiv(Pow(4, j), 50)
        /\ \A id \in DOMAIN batches : batches[id].zoom = zoom
        /\ pc \in {"base", "done"} =>
              \A j \in Levels : finished[j] = CeilDiv(Pow(4, j), 50)

\* A pool of worker processes renders an inner level, the level below done
\* in two batches.
PhasesNeverOverlapWitness ==
    /\ qt.st = "ok" /\ procs > 1 /\ qt.p >= 3
    /\ zoom = qt.p - 1
    /\ \E e \in Executors : exec[e].batch # 0

\* C2: the FIFO of outstanding results holds at most ceil(10000/B) + 1
\* entries, 201 for B = 50; whenever it holds more than ceil(10000/B) go() is
\* draining, no batch is submitted then, and the drain ends with exactly
\* ceil(500/B) entries, 10 for B = 50.
FifoBounded ==
    /\ [](/\ Len(results) <= CeilDiv(10000, batch_size) + 1
          /\ batch_size = 50 => Len(results) <= 201
          /\ Len(results) > CeilDiv(10000, batch_size) => pc = "drain")
    /\ [][/\ nsub' # nsub => Len(results) <= CeilDiv(10000, batch_size)
          /\ (pc = "drain" /\ pc' # "drain") =>
                /\ Len(results') = CeilDiv(500, batch_size)
                /\ batch_size = 50 => Len(results') = 10]_vars

FifoBoundedWitness == pc = "gen" /\ Len(results) = 10 /\ nsub = 201

\* C3: a run after a complete run, the world unchanged in between, saves no
\* tile file: no leaf, no inner tile, not 'base'.
IncrementalIdempotence ==
    (/\ applied = <<>>
     /\ \/ pc = "done" /\ runs >= 2
        \/ pc \notin {"idle", "done"} /\ runs >= 1)
    => written = {}

IncrementalIdempotenceWitness ==
    /\ applied = <<>> /\ pc = "done" /\ runs >= 2
    /\ qt.p >= 2 /\ BasePath \in DOMAIN tiles

IsLeaf(t) == Len(t) = qt.p /\ \A i \in 1..Len(t) : t[i] \in 0..3

WrittenLeaves == {t \in written : IsLeaf(t)}

\* C4: whenever a run rewrites a leaf tile, it rewrites every inner tile above
\* that leaf and 'base'.
FreshnessPropagates ==
    pc = "done" =>
        \A t \in WrittenLeaves :
            /\ \A n \in 1..(qt.p - 1) : SubSeq(t, 1, n) \in written
            /\ BasePath \in written

\* The run after a complete run, the only change in between one chunk saved
\* again at a time later than the mtime of every tile.
AfterSingleTouch ==
    /\ pc = "done" /\ runs >= 2
    /\ Len(applied) = 1
    /\ applied[1].kind = "touch"
    /\ applied[1].fresh

\* The leaves whose chunk list holds chunk c: its cell lies in the leaf's
\* columns colstart..colstart+2 and rows rowstart-16..rowstart+4.
LeavesHolding(c) ==
    LET col == c[1] + c[2]
        row == c[2] - c[1]
    IN  {t \in LeafPaths :
            LET r == GetRangeByPath(qt, t)
            IN  /\ r[1] <= col /\ col <= r[1] + 2
                /\ r[2] - 16 <= row /\ row <= r[2] + 4}

\* C5 (as amended): from an up-to-date tile tree, when one existing chunk's
\* timestamp and its region file's mtime are advanced beyond the mtime of
\* every tile and the pipeline is run again, the leaves rewritten are exactly
\* the leaves whose chunk list holds that chunk - every leaf whose columns
\* colstart..colstart+2 and rows rowstart-16..rowstart+4 hold its cell, which
\* may be several; no other leaf is rewritten.
FreshnessExactness ==
    AfterSingleTouch => WrittenLeaves = LeavesHolding(applied[1].chunk)

FreshnessExactnessWitness ==
    AfterSingleTouch /\ Cardinality(WrittenLeaves) >= 2

\* C5 (as claimed): exactly one leaf is rewritten.
FreshnessExactlyOneLeaf ==
    (AfterSingleTouch /\ LeavesHolding(applied[1].chunk) # {})
    => Cardinality(WrittenLeaves) = 1

NoChild(dest) == \A d \in 0..3 : dest \o <<d>> \notin DOMAIN tiles

\* C6: after a complete run a leaf without an existing chunk has no file, an
\* inner tile without a child file has no file, nor has 'base' without one;
\* a run over a world without chunks leaves no file at any path it enumerates
\* and does not write 'base'.
EmptyInputDeletion ==
    RunComplete =>
        /\ \A t \in LeafPaths :
              ExistingChunks(WorldTileJob(t)) = <<>> => t \notin DOMAIN tiles
        /\ \A t \in InnerPaths : NoChild(t) => t \notin DOMAIN tiles
        /\ NoChild(<<>>) => BasePath \notin DOMAIN tiles
        /\ (\A c \in ChunkIds : ~chunks[c].exists) =>
              /\ \A t \in LeafPaths \cup InnerPaths : t \notin DOMAIN tiles
              /\ BasePath \notin written

\* A run has unlinked a leaf, an inner tile and 'base', the world left
\* without chunks.
EmptyInputDeletionWitness ==
    /\ RunComplete
    /\ \A c \in ChunkIds : ~chunks[c].exists
    /\ BasePath \in deleted
    /\ \E t \in deleted : IsLeaf(t)
    /\ \E t \in deleted : t \in InnerPaths

\* C7: after a complete run every inner tile at a path of length 1..p-1 has
\* no file and no child file, or has a file, at least one child file, and an
\* mtime not below that of any child file.
InnerTilesUpToDate ==
    RunComplete =>
        \A t \in InnerPaths :
            \/ t \notin DOMAIN tiles /\ NoChild(t)
            \/ /\ t \in DOMAIN tiles
               /\ ~NoChild(t)
               /\ \A d \in 0..3 : t \o <<d>> \in DOMAIN tiles =>
                      tiles[t] >= tiles[t \o <<d>>]

\* A second run has rewritten an inner tile over a rewritten leaf.
InnerTilesUpToDateWitness ==
    /\ RunComplete /\ runs >= 2
    /\ \E t \in InnerPaths : t \in written /\ \E d \in 0..3 : t \o <<d>> \in written

\* ------------------------------------------------------- the constructor

\* The depth the depth law asks for: the smallest n >= 0 with
\* 2^n >= max(|mincol|, |maxcol|) and 2*2^n >= max(|minrow|, |maxrow|).
LawFits(n, w) ==
    /\ Pow(2, n) >= Max(Abs(w.mincol), Abs(w.maxcol))
    /\ 2 * Pow(2, n) >= Max(Abs(w.minrow), Abs(w.maxrow))

RequiredDepth(w) ==
    CHOOSE n \in 0..(MaxMagExp + 1) :
        LawFits(n, w) /\ \A m \in 0..(n - 1) : ~LawFits(m, w)

Constructed == qt.st \in {"ok", "error"}

PathWindowLaw ==
    qt.st = "ok" =>
        /\ \A w \in windows :
              /\ qt.mincol <= w[1] /\ w[1] + 2 <= qt.maxcol
              /\ qt.minrow <= w[2] /\ w[2] + 4 <= qt.maxrow
        /\ Cardinality(windows) = rangeIdx
        /\ rangeIdx = Pow(4, qt.p) =>
              \A col \in qt.mincol..(qt.maxcol - 1), row \in qt.minrow..(qt.maxrow - 1) :
                  Cardinality({w \in windows : /\ w[1] <= col /\ col < w[1] + 2
                                               /\ w[2] <= row /\ row < w[2] + 4}) = 1

PathWindowLawWitness ==
    qt.st = "ok" /\ qt.p >= 2 /\ rangeIdx = Pow(4, qt.p)

\* ------------------------------------------------ _get_chunks_in_range

\* The window whose chunk list is in 'listed'.
ListedWindow == GetRangeByPath(qt, PathOfIndex(rangeIdx - 1, qt.p))

HasListed == qt.st = "ok" /\ rangeIdx >= 1

\* C11: the list returned for a window holds exactly one tuple for each cell
\* (col, row) with colstart <= col <= colend, rowstart-16 <= row <= rowend,
\* col and row of equal parity (negative coordinates included) and a region
\* in the world's region map for (chunkx div 32, chunky div 32); it holds no
\* tuple of unequal parity, none without a region, none outside the window.
ChunksInWindowExact ==
    HasListed =>
        LET colstart == ListedWindow[1]
            rowstart == ListedWindow[2]
            Tuples(col, row) ==
                {i \in 1..Len(listed) : listed[i].col = col /\ listed[i].row = row}
        IN  /\ \A col \in colstart..(colstart + 2), row \in (rowstart - 16)..(rowstart + 4) :
                  LET c == UnconvertCoords(col, row)
                      inmap == <<c[1] \div 32, c[2] \div 32>> \in DOMAIN regionfiles
                  IN  IF (col - row) % 2 = 0 /\ inmap
                      THEN /\ Cardinality(Tuples(col, row)) = 1
                           /\ \A i \in Tuples(col, row) :
                                  <<listed[i].chunkx, listed[i].chunky>> = c
                      ELSE Tuples(col, row) = {}
            /\ \A i \in 1..Len(listed) :
                  /\ listed[i].col \in colstart..(colstart + 2)
                  /\ listed[i].row \in (rowstart - 16)..(rowstart + 4)
                  /\ listed[i].region \in DOMAIN regionfiles

\* A list with cells of negative and of positive coordinates, some cells
\* of the window left out for want of a region.
ChunksInWindowExactWitness ==
    /\ HasListed
    /\ \E i \in 1..Len(listed) : listed[i].col < 0 /\ listed[i].row < 0
    /\ \E i \in 1..Len(listed) : listed[i].col > 0 /\ listed[i].row > 0
    /\ Len(listed) < 31

\* ------------------------------------------------------------ rebalancing

\* Where _increase_depth is to leave what was at path q: quadrant d goes to
\* d/(3-d); 'base' stays.
Relocated(q) ==
    IF q = <<>> \/ q = BasePath THEN q
    ELSE <<q[1], 3 - q[1]>> \o Tail(q)

Staging(ds, tl) ==
    \E d \in 0..3 :
        \/ NewDir(d) \in ds
        \/ \E q \in ds \cup DOMAIN tl : Below(q, NewDir(d))

\* C12: one _increase_depth moves, for each d, the file d.<ext> to
\* d/(3-d).<ext> and the subtree d/ to d/(3-d)/; no tile file is deleted or
\* changed (content and mtime stay), afterwards d/ exists for every d, and
\* no staging directory new0..new3 is left.
IncreaseRelocates ==
    [][topo'.ops = Append(topo.ops, "inc") =>
          /\ DOMAIN tiles' = {Relocated(q) : q \in DOMAIN tiles}
          /\ Cardinality(DOMAIN tiles') = Cardinality(DOMAIN tiles)
          /\ \A q \in DOMAIN tiles :
                /\ tiles'[Relocated(q)] = tiles[q]
                /\ image'[Relocated(q)] = image[q]
          /\ dirs' = {Relocated(q) : q \in dirs} \cup {<<d>> : d \in 0..3}
          /\ ~Staging(dirs', tiles')]_vars

\* A tree grown once: what was 0.<ext> and 0/3.<ext> is at 0/3.<ext> and
\* 0/3/3.<ext>, and the quadrant that had nothing has its directory.
IncreaseRelocatesWitness ==
    /\ topo.ops = <<"inc">>
    /\ <<0>> \in DOMAIN topo.orig.tiles /\ <<0, 3>> \in DOMAIN topo.orig.tiles
    /\ <<2>> \notin topo.orig.dirs
    /\ <<0, 3>> \in DOMAIN tiles /\ image[<<0, 3>>].at = <<0>>
    /\ <<0, 3, 3>> \in DOMAIN tiles /\ image[<<0, 3, 3>>].at = <<0, 3>>
    /\ <<2>> \in dirs

\* The tile files below directory d/ of a tree.
UnderQuadrant(t, d) == {q \in DOMAIN t.tiles : Below(q, <<d>>)}

\* C13: _increase_depth followed by _decrease_depth on any tile tree (one
\* with files d.<ext> and no directories d/ included) leaves below each d/
\* the files that were there, with their contents, and no file differs from
\* the original tree but the four top-level tiles d.<ext>.
GrowShrinkRoundTrip ==
    topo.ops = <<"inc", "dec">> =>
        /\ \A d \in 0..3 :
              /\ UnderQuadrant(Tree(tiles, image, dirs), d) = UnderQuadrant(topo.orig, d)
              /\ \A q \in UnderQuadrant(topo.orig, d) : image[q] = topo.orig.image[q]
        /\ \A q \in DOMAIN tiles \cup DOMAIN topo.orig.tiles :
              (\/ q \notin DOMAIN tiles
               \/ q \notin DOMAIN topo.orig.tiles
               \/ image[q] # topo.orig.image[q])
              => q \in {<<d>> : d \in 0..3}

\* ------------------------------------------------------- failing batches

\* go() has ended with an exception.
GoFailed == pc = "failed"

\* C14 (as amended): a batch that raises in a worker process surfaces in
\* go() when go() takes that batch's result from the FIFO, and never before;
\* a batch that raises on the inline pool of procs = 1 surfaces at once, out
\* of its submission, without a result ever being queued.  Either way go()
\* ends with that one error: it submits no further batch, takes no further
\* result, starts no later level and does not render 'base'; and no failed
\* batch's result is taken without go() ending.
FailureStopsGo ==
    /\ [][(GoFailed' /\ ~GoFailed) =>
             IF procs = 1
             THEN /\ pc = "apply"
                  /\ batches'[exec[0].batch].st = "failed"
                  /\ exec[0].batch \notin {results[i] : i \in 1..Len(results)}
                  /\ results' = results
             ELSE /\ pc \in {"drain", "wait"}
                  /\ batches[Head(results)].st = "failed"
                  /\ results' = Tail(results)]_vars
    /\ [][GoFailed =>
             /\ GoFailed'
             /\ UNCHANGED <<nsub, submitted, results, zoom, idx, complete, runs>>
             /\ (BasePath \in written') = (BasePath \in written)]_vars
    /\ [][(/\ results # <<>> /\ results' = Tail(results)
           /\ Head(results) \in DOMAIN batches
           /\ batches[Head(results)].st = "failed") => GoFailed']_vars
    /\ [](procs = 1 /\ (\E id \in DOMAIN batches : batches[id].st = "failed")
             => GoFailed)

\* go() has ended on the failed second batch of the leaves while a worker
\* process still renders.
FailureStopsGoWitness ==
    /\ GoFailed /\ procs > 1 /\ zoom = qt.p /\ nsub = 2
    /\ \E e \in Executors : exec[e].batch # 0

\* C14 (as claimed): every error surfaces when go() takes the failed
\* batch's result.
FailureSurfacesAtGet ==
    [][(GoFailed' /\ ~GoFailed) =>
          /\ pc \in {"drain", "wait"}
          /\ batches[Head(results)].st = "failed"]_vars

\* C15: no tile file ever holds a partially written image.
NoPartialTile == \A t \in DOMAIN image : image[t].whole

\* ---------------------------------------------------------- single writer

\* The paths a batch has yet to render.
BatchPaths(id) ==
    LET b == batches[id]
        from == IF \E e \in Executors : exec[e].batch = id
                THEN b.first + exec[CHOOSE e \in Executors : exec[e].batch = id].count
                ELSE b.first
    IN  {PathOfIndex(k, b.zoom) : k \in from..(b.first + b.n - 1)}

Outstanding == {id \in DOMAIN batches : batches[id].st \in {"queued", "running"}}

\* The tile files a step creates, overwrites or deletes.
Touched ==
    {t \in DOMAIN tiles \cup DOMAIN tiles' :
        \/ t \notin DOMAIN tiles
        \/ t \notin DOMAIN tiles'
        \/ tiles'[t] # tiles[t]
        \/ image'[t] # image[t]}
    \cup (written' \ written) \cup (deleted' \ deleted)

\* C16: in one run no tile path is the target of two render jobs, and a
\* complete run has made every leaf, every inner tile and 'base' the target
\* of one; the batches outstanding at the same time have no path in common;
\* and a step of a render job creates, overwrites or deletes no tile file
\* but its target.
SingleWriter ==
    /\ [](qt.st = "ok" =>
             /\ targeted.twice = {}
             /\ pc = "done" =>
                   Targets = LeafPaths \cup InnerPaths \cup {BasePath}
             /\ \A i, j \in Outstanding :
                   i # j => BatchPaths(i) \cap BatchPaths(j) = {})
    /\ [][(pc # "idle" /\ Touched # {}) =>
             \/ pc = "base" /\ Touched = {BasePath}
             \/ \E e \in Executors :
                   /\ exec[e].batch # 0 /\ exec'[e] # exec[e]
                   /\ Touched = {CurrentJob(e).path}]_vars

\* Two worker processes render leaves at the same time, both having saved
\* a tile.
SingleWriterWitness ==
    /\ procs > 1 /\ zoom = qt.p
    /\ \A e \in Executors : exec[e].batch # 0 /\ exec[e].count > 0
    /\ Cardinality({t \in written : IsLeaf(t)}) >= 2

\* ------------------------------------------------------ after a shrink

\* A run at a reduced depth has completed, one _decrease_depth before it.
ShrunkAndRun == RunComplete /\ topo.ops = <<"dec">>

\* C17: after _decrease_depth and a complete run at the reduced depth, each
\* top-level tile d.<ext> that was there before the shrink has been
\* rewritten in the run or is gone, and neither a top-level tile nor 'base'
\* holds an image composed for the deeper tree.
ShrinkRegeneratesTop ==
    ShrunkAndRun =>
        /\ \A d \in 0..3 :
              <<d>> \in DOMAIN topo.orig.tiles =>
                  (<<d>> \in written \/ <<d>> \notin DOMAIN tiles)
        /\ \A t \in {<<d>> : d \in 0..3} \cup {BasePath} :
              t \in DOMAIN tiles => image[t].p = qt.p

\* ----------------------------------------------------- stat error policy

\* A render stats a file that stat fails on: the tile itself, one of the
\* four children of an inner tile, or a region file the freshness loop of
\* a leaf comes to.
StatsDenied(kind, path) ==
    \/ TargetStatRaises(path)
    \/ /\ kind = "world"
       /\ RegionStatFails(ExistingChunks(WorldTileJob(path)), TileMtime(path))
    \/ /\ kind = "inner"
       /\ \E d \in 0..3 : QuadPath(Front(path), Last(path))[d] \in denied.tiles

\* C18: a stat that fails with an error other than file-not-found, be it on
\* the leaf tile, the inner tile, one of the four child files or a region
\* file, is never taken for an absent file: the job raises, its batch
\* fails, and a failing render of 'base' ends go().
StatErrorsPropagate ==
    [][/\ \A e \in Executors :
             (/\ exec[e].batch # 0
              /\ exec'[e] # exec[e]
              /\ StatsDenied(CurrentJob(e).kind, CurrentJob(e).path))
                 => batches'[exec[e].batch].st = "failed"
       /\ (pc = "base" /\ pc' # "base" /\ StatsDenied("inner", BasePath))
             => pc' = "failed"]_vars

\* ----------------------------------------------- leaf re-render decision

\* The chunks of the leaf at path that exist, and the mtime of its file.
LeafChunks(path) == ExistingChunks(WorldTileJob(path))

\* Chunk c of a leaf calls for a rewrite of a tile of mtime tm.
Triggers(c, tm) ==
    /\ regionfiles[c.region] > tm
    /\ chunks[<<c.chunkx, c.chunky>>].ts > tm

\* C19: a leaf job on a leaf with at least one existing chunk rewrites the
\* tile if and only if the file is absent or some chunk of it has its region
\* file's mtime and its own timestamp both strictly above the tile's mtime;
\* the loop decides the same, and asks no chunk for its timestamp whose
\* region file is not newer than the tile.
LeafRerenderDecision ==
    [][\A e \in Executors :
          (/\ exec[e].batch # 0
           /\ exec'[e] # exec[e]
           /\ CurrentJob(e).kind = "world"
           /\ LeafChunks(CurrentJob(e).path) # <<>>)
          => LET path == CurrentJob(e).path
                 cl == LeafChunks(path)
                 tm == TileMtime(path)
                 loop == FreshnessLoop(cl, tm, 1, {})
             IN  /\ (path \in written') <=>
                        (\/ path \notin DOMAIN tiles
                         \/ \E i \in 1..Len(cl) : Triggers(cl[i], tm))
                 /\ (path \in written') <=> loop.needs_rerender
                 /\ \A i \in 1..Len(cl) :
                       regionfiles[cl[i].region] <= tm => i \notin loop.queried
                 /\ path \in written' => tiles'[path] = now
                 /\ path \notin written' => tiles'[path] = tiles[path]]_vars

\* A leaf job has kept a tile that a chunk is newer than, because the
\* chunk's region file is not newer than the tile.
LeafRerenderDecisionWitness ==
    \E path \in Targets :
        /\ IsLeaf(path)
        /\ path \in DOMAIN tiles /\ path \notin written
        /\ \E i \in 1..Len(LeafChunks(path)) :
              LET c == LeafChunks(path)[i]
              IN  /\ chunks[<<c.chunkx, c.chunky>>].ts > tiles[path]
                  /\ regionfiles[c.region] <= tiles[path]

\* ------------------------------------------------ directory creation race

\* The directory os.mkdir is about to make for executor e is there already.
LosesRace(e) ==
    /\ exec[e].batch # 0
    /\ mk[e].st = "down"
    /\ SubSeq(DirDest(CurrentJob(e).path), 1, mk[e].lvl) \in dirs

\* C20: workers that render leaves under a directory that is not there all
\* come to render, with the directory made, whatever the order of their
\* exists-checks and mkdirs; a mkdir that finds the directory made by
\* another raises EEXIST, which fails no job; a batch fails in the making
\* of directories only by another error of mkdir.
DirRaceTolerated ==
    /\ [](\A e \in Executors :
            /\ mk[e].st = "render" =>
                   Prefixes(DirDest(CurrentJob(e).path)) \subseteq dirs
            /\ mk[e].st = "raised" => mk[e].err # "EEXIST")
    /\ [][\A e \in Executors :
            /\ (LosesRace(e) /\ mk'[e] # mk[e] /\ mk'[e].err # "EACCES")
                  => /\ mk'[e].err = "EEXIST"
                     /\ mk'[e].st \in {"down", "render"}
                     /\ exec'[e] = exec[e]
                     /\ batches'[exec[e].batch].st # "failed"
            /\ (/\ exec[e].batch # 0
                /\ batches[exec[e].batch].st # "failed"
                /\ batches'[exec[e].batch].st = "failed")
                  => mk'[e].st = "raised" /\ mk'[e].err = "EACCES"]_vars

\* Two workers are about to render leaves of one directory, one of them
\* after an EEXIST from mkdir.
DirRaceToleratedWitness ==
    /\ procs > 1
    /\ \E e1, e2 \in Executors :
          /\ e1 # e2
          /\ mk[e1].st = "render" /\ mk[e1].err = "EEXIST"
          /\ mk[e2].st = "render"
          /\ DirDest(CurrentJob(e1).path) = DirDest(CurrentJob(e2).path)

\* ------------------------------------------------ topology reconciliation

\* A tree after n calls of _increase_depth, and after n of _decrease_depth.
RECURSIVE Grown(_, _)
Grown(t, n) == IF n = 0 THEN t ELSE IncreaseDepth(Grown(t, n - 1))

RECURSIVE Shrunk(_, _)
Shrunk(t, n) == IF n = 0 THEN t ELSE DecreaseDepth(Shrunk(t, n - 1))

\* C21: go() reconciles the tree with the depth c of config.js before it
\* submits a batch: nothing moves when c = -1 or c = p, the tree is that of
\* p - c calls of _increase_depth when p > c and of c - p calls of
\* _decrease_depth when p < c, and no later step moves anything.
ReconcileByDepth ==
    [][/\ (pc = "idle" /\ pc' # "idle") =>
             LET before == Tree(tiles, image, dirs)
                 after == Tree(tiles', image', dirs')
                 c == curdepth
                 p == qt.p
             IN  /\ nsub' = 0 /\ batches' = <<>>
                 /\ (c = -1 \/ c = p) => (after = before /\ topo' = topo)
                 /\ (c # -1 /\ p > c) =>
                        /\ after = Grown(before, p - c)
                        /\ topo'.ops = [i \in 1..(p - c) |-> "inc"]
                 /\ (c # -1 /\ p < c) =>
                        /\ after = Shrunk(before, c - p)
                        /\ topo'.ops = [i \in 1..(c - p) |-> "dec"]
       /\ pc # "idle" => topo' = topo]_vars

\* go() has grown a tree by two levels, which moved files.
ReconcileByDepthWitness ==
    /\ pc # "idle"
    /\ topo.ops = <<"inc", "inc">>
    /\ curdepth = qt.p - 2
    /\ tiles # topo.orig.tiles

\* ----------------------------------------------------------- scenario S2

\* The enumeration at depth 2, bounds (-4, 4, -8, 8), comes to path (1, 3).
AtPath13 ==
    /\ qt.st = "ok" /\ qt.p = 2
    /\ <<qt.mincol, qt.maxcol, qt.minrow, qt.maxrow>> = <<-4, 4, -8, 8>>
    /\ PathOfIndex(rangeIdx, qt.p) = <<1, 3>>

\* C22 as stated: at depth 2 with bounds (-4, 4, -8, 8) the window of path
\* (1, 3) starts at (colstart, rowstart) = (2, 4).
ScenarioS2 ==
    [][(AtPath13 /\ rangeIdx' = rangeIdx + 1) =>
          /\ GetRangeByPath(qt, <<1, 3>>) = <<2, 4>>
          /\ <<2, 4>> \in windows']_vars

\* C22 as the code has it: at depth 2 with bounds (-4, 4, -8, 8) the window
\* of path (1, 3) starts at (colstart, rowstart) = (2, -4), columns 2..4
\* and rows -4..0: digit 1 moves right only, digit 3 right and down.
ScenarioS2Upper ==
    [][(AtPath13 /\ rangeIdx' = rangeIdx + 1) =>
          /\ GetRangeByPath(qt, <<1, 3>>) = <<2, -4>>
          /\ windows' \ windows = {<<2, -4>>}
          /\ <<2, 4>> \notin windows']_vars

\* The enumeration has just passed path (1, 3) at depth 2.
ScenarioS2UpperWitness ==
    /\ qt.st = "ok" /\ qt.p = 2
    /\ <<qt.mincol, qt.maxcol, qt.minrow, qt.maxrow>> = <<-4, 4, -8, 8>>
    /\ rangeIdx >= 1
    /\ PathOfIndex(rangeIdx - 1, qt.p) = <<1, 3>>
    /\ <<2, -4>> \in windows

\* ------------------------------------------ rebalancing preserves coverage

\* The window start of a path in a tree of depth p.
WindowAt(p, path) == GetRangeByPath(QuadtreeOfDepth(p), path)

\* The tile files of a tree but 'base'.
Quadrants(tl) == DOMAIN tl \ {BasePath}

\* C23: for every depth p >= 1 and every path (d1, ..., dk), 1 <= k <= p, the
\* window start of the path at depth p is that of (d1, 3-d1, d2, ..., dk) at
\* depth p + 1; every file but 'base' is moved by _increase_depth to a path
\* one digit longer with the same window at the depth above, and every file
\* _decrease_depth moves goes to a path one digit shorter with the same
\* window at the depth below.
CoveragePreserved ==
    /\ [](topo.ops = <<>> =>
             \A p \in 1..MaxRangeDepth, k \in 1..MaxRangeDepth :
                 k <= p =>
                    \A i \in 0..(Pow(4, k) - 1) :
                        WindowAt(p, PathOfIndex(i, k))
                            = WindowAt(p + 1, Relocated(PathOfIndex(i, k))))
    /\ [][/\ topo'.ops = Append(topo.ops, "inc") =>
                \A q \in Quadrants(tiles) :
                    \E r \in Quadrants(tiles') : r # q /\ image'[r] = image[q]
          /\ \A q \in Quadrants(tiles), r \in Quadrants(tiles') :
                (r # q /\ image'[r] = image[q]) =>
                    IF topo'.ops = Append(topo.ops, "inc")
                    THEN /\ Len(r) = Len(q) + 1
                         /\ \A p \in Len(q)..MaxRangeDepth :
                               WindowAt(p, q) = WindowAt(p + 1, r)
                    ELSE /\ Len(r) = Len(q) - 1
                         /\ \A p \in Len(r)..MaxRangeDepth :
                               WindowAt(p + 1, q) = WindowAt(p, r)]_vars

\* A tree grown and shrunk again, a file of which went down a level and
\* came back to its path.
CoveragePreservedWitness ==
    /\ topo.ops = <<"inc", "dec">>
    /\ \E q \in Quadrants(tiles) :
          /\ Len(q) >= 2
          /\ q \in DOMAIN topo.orig.tiles
          /\ image[q] = topo.orig.image[q]

\* -------------------------------------------------- deletions and parents

\* The tile composed from the tile at path t, and the tiles it is composed
\* from.
ParentOf(t) == IF Len(t) = 1 THEN BasePath ELSE Front(t)

ChildrenOf(t) == IF t = BasePath THEN {<<d>> : d \in 0..3}
                 ELSE {t \o <<d>> : d \in 0..3}

\* C24: after a complete run, the parent of every tile the run deleted has
\* been recomposed in that run if a sibling of the deleted tile is still
\* there, so that no inner tile and no 'base' shows a quadrant whose child
\* is gone.
DeletionRecomposes ==
    RunComplete =>
        \A t \in deleted :
            (/\ t # BasePath /\ t # <<>>
             /\ \E s \in ChildrenOf(ParentOf(t)) : s \in DOMAIN tiles)
            => ParentOf(t) \in written

\* ------------------------------------- termination, exactly-once results

\* The batches of level k: ceil(4^k / B).
BatchesOf(k) == CeilDiv(Pow(4, k), batch_size)

\* The id of the oldest result go() has not consumed: the batches of the
\* levels before this one, those consumed of this level, and one.
NextToConsume ==
    (nsub - submitted[zoom]) + CeilDiv(complete, batch_size) + 1

\* C25: with no batch failing, go() submits ceil(4^k / B) batches for each
\* level k = p, ..., 1, which cover every path of the level once; each
\* result enters the FIFO once, in the order of submission, and is consumed
\* once, in that order; a level ends with its counter at 4^k and the FIFO
\* empty; and go() comes to render 'base' and returns.
RunsToCompletion ==
    /\ [](pc \in {"close", "base", "done"} =>
             /\ \A k \in Levels :
                   submitted[k] = BatchesOf(k) /\ finished[k] = BatchesOf(k)
             /\ results = <<>> /\ batches = <<>>
             /\ targeted.twice = {})
    /\ [](pc = "done" => Targets = LeafPaths \cup InnerPaths \cup {BasePath})
    /\ [][/\ nsub' # nsub =>
                /\ nsub' = nsub + 1
                /\ batches'[nsub'].first = idx /\ idx' = idx + batches'[nsub'].n
                /\ procs # 1 => results' = Append(results, nsub')
                /\ procs = 1 => exec[0].batch = 0 /\ exec'[0].batch = nsub'
          /\ (pc # "idle" /\ results' # results) =>
                \/ /\ results' = Append(results, nsub')
                   /\ results # <<>> => Last(results) = nsub' - 1
                \/ /\ results # <<>> /\ results' = Tail(results)
                   /\ Head(results) = NextToConsume
                   /\ complete' = complete + batches[Head(results)].n
          /\ (pc = "wait" /\ pc' # "wait") =>
                /\ complete = Pow(4, zoom) /\ complete = total
                /\ results = <<>>]_vars
    /\ (qt.st = "ok" ~> pc = "done")

\* go() has returned from a tree of several levels rendered by worker
\* processes, the leaves in more than one batch.
RunsToCompletionWitness ==
    /\ pc = "done" /\ procs > 1 /\ qt.p >= 3
    /\ submitted[qt.p] >= 2
    /\ targeted.base = 1

====
